---------------------------- MODULE Spec2Model ----------------------------
(***************************************************************************)
(* Network-traffic monitoring dashboard: the record store                  *)
(* (DatabaseStorage), the query API routes that write to it, the           *)
(* Elasticsearch bridge, the NetworkMonitor engine with its three periodic *)
(* tasks, and the WebSocket gateway (broadcast, sendInitialData).          *)
(*                                                                         *)
(* Node runs one handler at a time; every await is a suspension point.     *)
(* An action below is one run-to-suspension piece of a handler: the store  *)
(* executing the pending call of an async function, or the continuation    *)
(* that resumes after it.                                                  *)
(***************************************************************************)
EXTENDS Integers, Sequences, FiniteSets, TLC

(* ------------------------------ bounds -------------------------------- *)
MaxConns == 2          \* WebSocket connections ever accepted
MaxLogs == 2           \* rows of network_logs created during a run
MaxAlerts == 2         \* rows of alerts
MaxMetrics == 2        \* rows of traffic_metrics
MaxCycles == 2         \* engine cycles started during a run (all three tasks)
MaxClock == 1          \* ticks of the wall clock
MaxFaults == 1         \* store calls that reject and ws.send calls that throw
MaxResolves == 2       \* resolveAlert calls on one alert
MaxConnRows == 1       \* rows of connections
MaxIntervals == 2      \* setInterval timers registered for one task
MaxPreLogs == 11       \* rows already in network_logs at start (SpecSnapshot)

(* ------------------------- program constants -------------------------- *)
SnapshotLogLimit == 10             \* getNetworkLogs(10) in sendInitialData
RapidThreshold == 20               \* count > 20
BandwidthThreshold == 104857600    \* 100 * 1024 * 1024

Conns == 1..MaxConns
Cycles == 1..MaxCycles

(* A nullable timestamp column: <<>> is NULL, <<t>> is the date t. *)
NullDate == <<>>
DateOf(t) == <<t>>

VARIABLES
    now,            \* the wall clock (new Date(), defaultNow())
    networkLogs,    \* table network_logs, in insertion order
    alerts,         \* table alerts, in insertion order
    trafficMetrics, \* table traffic_metrics, in insertion order
    connections,    \* table connections, in insertion order
    clients,        \* wss.clients, in insertion order
    readyState,     \* ws.readyState of each connection
    received,       \* messages handed to each connection's socket by send
    attempted,      \* number of send calls made on each connection
    initData,       \* the sendInitialData call of each connection
    cycles,         \* the engine cycles in flight
    started,        \* number of engine cycles started so far
    isRunning,      \* NetworkMonitor.isRunning
    intervals,      \* setInterval timers registered for each periodic task
    emitted,        \* history: the events the engine emitted, in order
    consoleOut,     \* last line the ws message handler wrote to the console
    response,       \* last HTTP response of a query API route
    resolves,       \* history: resolveAlert calls that updated each alert
    ingest,         \* the POST /api/system-data request being served
    es,             \* the processLogEntry call of the Elasticsearch bridge
    faults          \* store calls that rejected and sends that threw so far

storeVars == <<networkLogs, alerts, trafficMetrics, connections>>
gatewayVars == <<clients, readyState, received, attempted, initData>>
engineVars == <<cycles, started, emitted, isRunning, intervals>>
apiVars == <<response, resolves, ingest>>
vars == <<now, networkLogs, alerts, trafficMetrics, connections, clients, readyState,
          received, attempted, initData, cycles, started, emitted, isRunning,
          intervals, consoleOut, response, resolves, ingest, es, faults>>


(* ----------------------------- helpers -------------------------------- *)
MaxOf(S) == CHOOSE x \in S : \A y \in S : y <= x

Range(s) == {s[i] : i \in DOMAIN s}

RECURSIVE SumSeq(_)
SumSeq(s) == IF s = <<>> THEN 0 ELSE Head(s) + SumSeq(Tail(s))

(* orderBy(desc(timestamp)).limit(k): every order of the rows the database *)
(* may return; rows with equal timestamps come in any order.               *)
RECURSIVE OrderByDescTimestamp(_, _)
OrderByDescTimestamp(rows, k) ==
    IF rows = {} \/ k = 0 THEN {<<>>}
    ELSE LET mx == MaxOf({r.timestamp : r \in rows})
             newest == {r \in rows : r.timestamp = mx}
         IN UNION {{<<r>> \o rest : rest \in OrderByDescTimestamp(rows \ {r}, k - 1)}
                   : r \in newest}

(* Number.prototype.toString of an integer (below 1e21, from where on the  *)
(* result is in exponent notation)                                         *)
DigitChar(d) ==
    CASE d = 0 -> "0" [] d = 1 -> "1" [] d = 2 -> "2" [] d = 3 -> "3" [] d = 4 -> "4"
      [] d = 5 -> "5" [] d = 6 -> "6" [] d = 7 -> "7" [] d = 8 -> "8" [] d = 9 -> "9"

RECURSIVE NumberToString(_)
NumberToString(n) ==
    IF n < 0 THEN "-" \o NumberToString(-n)
    ELSE IF n < 10 THEN DigitChar(n)
    ELSE NumberToString(n \div 10) \o DigitChar(n % 10)

(* decimal("total_traffic", {precision: 15, scale: 2}): the column holds   *)
(* an integer of up to 13 digits with two decimals and refuses a longer one *)
DecimalPrecision == 15
DecimalScale == 2

DecimalOverflow(text) == Len(text) > DecimalPrecision - DecimalScale

DecimalColumn(text) == text \o ".00"

(* --------------------------- DatabaseStorage -------------------------- *)
(* A store call that writes returns [err, rows]: err is TRUE when the call *)
(* rejects (the route or task catches it), rows is the table afterwards.   *)

(* Fault injection: an insert into a table that keeps its newest row only. *)
createNetworkLogRotating(rows, log, t) ==
    [err |-> FALSE,
     rows |-> <<[id |-> Len(rows) + 1, timestamp |-> t,
                 sourceIp |-> log.sourceIp, action |-> log.action,
                 dataSize |-> log.dataSize, protocol |-> log.protocol,
                 destinationHost |-> log.destinationHost]>>]

(* insert(networkLogs).values(log).returning(): id is the serial, timestamp *)
(* is defaultNow().                                                         *)
createNetworkLog(rows, log, t) ==
    [err |-> FALSE,
     rows |-> Append(rows, [id |-> Len(rows) + 1, timestamp |-> t,
                            sourceIp |-> log.sourceIp, action |-> log.action,
                            dataSize |-> log.dataSize, protocol |-> log.protocol,
                            destinationHost |-> log.destinationHost])]

getNetworkLogs(rows, limit) == OrderByDescTimestamp(Range(rows), limit)

(* insert(alerts).values(alert).returning(): isResolved defaults to false,  *)
(* resolvedAt to NULL; both are taken from the insert object when present.  *)
createAlert(rows, alert, t) ==
    [err |-> FALSE,
     rows |-> Append(rows, [id |-> Len(rows) + 1, timestamp |-> t,
                            severity |-> alert.severity, type |-> alert.type,
                            sourceIp |-> alert.sourceIp, ref |-> alert.ref,
                            isResolved |-> (alert.isResolved = "true"),
                            resolvedAt |-> alert.resolvedAt])]

(* Fault injection: getActiveAlerts without its where clause. *)
getAllAlerts(rows) == OrderByDescTimestamp(Range(rows), Cardinality(Range(rows)))

getActiveAlerts(rows) ==
    LET active == {r \in Range(rows) : r.isResolved = FALSE}
    IN OrderByDescTimestamp(active, Cardinality(active))

(* Fault injection: a resolveAlert that rejects when the alert is already    *)
(* resolved.                                                                *)
resolveAlertOnce(rows, id, t) ==
    [err |-> \E i \in DOMAIN rows : rows[i].id = id /\ rows[i].isResolved,
     rows |-> [i \in DOMAIN rows |->
                 IF rows[i].id = id
                 THEN [rows[i] EXCEPT !.isResolved = TRUE, !.resolvedAt = DateOf(t)]
                 ELSE rows[i]]]

(* update(alerts).set({isResolved: true, resolvedAt: new Date()})           *)
(*   .where(eq(alerts.id, id))                                              *)
resolveAlert(rows, id, t) ==
    [err |-> FALSE,
     rows |-> [i \in DOMAIN rows |->
                 IF rows[i].id = id
                 THEN [rows[i] EXCEPT !.isResolved = TRUE, !.resolvedAt = DateOf(t)]
                 ELSE rows[i]]]

(* Fault injection: a createTrafficMetric that inserts the record twice. *)
createTrafficMetricTwice(rows, metric, t) ==
    [err |-> DecimalOverflow(metric.totalTraffic),
     rows |-> rows \o [k \in 1..2 |->
                         [id |-> Len(rows) + k, timestamp |-> t,
                          totalTraffic |-> DecimalColumn(metric.totalTraffic),
                          activeConnections |-> metric.activeConnections,
                          blockedRequests |-> metric.blockedRequests,
                          protocolDistribution |-> metric.protocolDistribution,
                          topDestinations |-> metric.topDestinations]]]

createTrafficMetric(rows, metric, t) ==
    [err |-> DecimalOverflow(metric.totalTraffic),
     rows |-> Append(rows, [id |-> Len(rows) + 1, timestamp |-> t,
                            totalTraffic |-> DecimalColumn(metric.totalTraffic),
                            activeConnections |-> metric.activeConnections,
                            blockedRequests |-> metric.blockedRequests,
                            protocolDistribution |-> metric.protocolDistribution,
                            topDestinations |-> metric.topDestinations])]

(* Fault injection: the metric with the oldest timestamp. *)
getOldestTrafficMetrics(rows) ==
    IF rows = <<>> THEN {<<>>}
    ELSE {<<r>> : r \in {q \in Range(rows) :
                           \A o \in Range(rows) : q.timestamp <= o.timestamp}}

(* orderBy(desc(timestamp)).limit(1): <<>> stands for undefined *)
getLatestTrafficMetrics(rows) == OrderByDescTimestamp(Range(rows), 1)

(* count() of the alerts with isResolved = false *)
countActiveAlerts(rows) == Cardinality({i \in DOMAIN rows : rows[i].isResolved = FALSE})

(* the object getDashboardStats returns from its two reads *)
DashboardStats(latest, activeAlerts) ==
    IF latest = <<>>
    THEN [totalTraffic |-> "0", activeConnections |-> 0, blockedRequests |-> 0,
          activeAlerts |-> activeAlerts]
    ELSE [totalTraffic |-> latest[1].totalTraffic,
          activeConnections |-> latest[1].activeConnections,
          blockedRequests |-> latest[1].blockedRequests,
          activeAlerts |-> activeAlerts]

(* insert(connections).values(connection).returning(): isActive defaults   *)
(* to true and is taken from the insert object when present; totalDataSize *)
(* and connectionCount, absent from the bodies posted, take their defaults *)
createConnection(rows, connection, t) ==
    [err |-> FALSE,
     rows |-> Append(rows, [id |-> Len(rows) + 1, startTime |-> t,
                            totalDataSize |-> 0, connectionCount |-> 1,
                            isActive |-> (connection.isActive # "false"),
                            lastActivity |-> t])]

(* update(connections).set(updates).where(eq(connections.id, id)).  Each   *)
(* field of updates is a set: empty when the field is absent, else holding *)
(* the new value.                                                          *)
updateConnection(rows, id, updates) ==
    [err |-> FALSE,
     rows |-> [i \in DOMAIN rows |->
                 IF rows[i].id = id
                 THEN [rows[i] EXCEPT
                         !.totalDataSize =
                            IF updates.totalDataSize = {} THEN @
                            ELSE CHOOSE v \in updates.totalDataSize : TRUE,
                         !.connectionCount =
                            IF updates.connectionCount = {} THEN @
                            ELSE CHOOSE v \in updates.connectionCount : TRUE,
                         !.isActive =
                            IF updates.isActive = {} THEN @
                            ELSE CHOOSE v \in updates.isActive : TRUE]
                 ELSE rows[i]]]

(* select().from(connections).where(eq(connections.isActive, true)) *)
getActiveConnections(rows) == SelectSeq(rows, LAMBDA r : r.isActive = TRUE)

(* getNetworkLogsByTimeRange(start, end): timestamp >= start and <= end *)
(* ordered by desc(timestamp)                                            *)
getNetworkLogsByTimeRange(rows, startTime, endTime) ==
    LET hits == {r \in Range(rows) : r.timestamp >= startTime /\ r.timestamp <= endTime}
    IN OrderByDescTimestamp(hits, Cardinality(hits))


(* ------------------------------ messages ------------------------------ *)
NoStats == [totalTraffic |-> "0", activeConnections |-> 0, blockedRequests |-> 0,
            activeAlerts |-> 0]

(* {type: 'networkLog' | 'alert' | 'metricsUpdate', data: <stored record>}: *)
(* the record is named by its id                                            *)
EventMessage(type, id) ==
    [type |-> type, id |-> id, stats |-> NoStats, alerts |-> <<>>, logs |-> <<>>]

(* {type: 'initialData', data: {stats, alerts, logs}} *)
InitialDataMessage(stats, alertList, logList) ==
    [type |-> "initialData", id |-> 0, stats |-> stats, alerts |-> alertList,
     logs |-> logList]

EventTypes == {"networkLog", "alert", "metricsUpdate"}

(* ------------------------------ gateway ------------------------------- *)
IsOpen(c) == readyState[c] = "OPEN"

(* Fault injection: forEach without the readyState test. *)
AllClients == clients

(* wss.clients filtered by client.readyState === WebSocket.OPEN, in the    *)
(* order forEach visits them                                               *)
OpenClients == SelectSeq(clients, IsOpen)

(* The send outcomes of one broadcast: 0 when no send throws, else the     *)
(* position among the open clients of the one whose send throws.           *)
SendOutcomes ==
    {0} \cup (IF faults < MaxFaults THEN DOMAIN OpenClients ELSE {})

(* The clients on which forEach calls send before it ends or is aborted *)
SendCalled(failAt) ==
    {OpenClients[j] : j \in {k \in DOMAIN OpenClients : failAt = 0 \/ k <= failAt}}

(* The clients whose send returned normally *)
SendDone(failAt) ==
    {OpenClients[j] : j \in {k \in DOMAIN OpenClients : failAt = 0 \/ k < failAt}}

(* Fault injection: a broadcast whose message overtakes the ones sent      *)
(* before it.                                                              *)
broadcastOvertaking(message, failAt) ==
    /\ failAt \in SendOutcomes
    /\ received' = [c \in Conns |->
                      IF c \in SendDone(failAt) THEN <<message>> \o received[c]
                      ELSE received[c]]
    /\ attempted' = [c \in Conns |->
                       IF c \in SendCalled(failAt) THEN attempted[c] + 1
                       ELSE attempted[c]]
    /\ faults' = IF failAt = 0 THEN faults ELSE faults + 1

(* Fault injection: a broadcast that passes over the clients whose         *)
(* sendInitialData has not returned.                                       *)
broadcastAfterSnapshot(message, failAt) ==
    /\ failAt \in SendOutcomes
    /\ received' = [c \in Conns |->
                      IF c \in SendDone(failAt) /\ initData[c].pc = "done"
                      THEN Append(received[c], message)
                      ELSE received[c]]
    /\ attempted' = [c \in Conns |->
                       IF c \in SendCalled(failAt) THEN attempted[c] + 1
                       ELSE attempted[c]]
    /\ faults' = IF failAt = 0 THEN faults ELSE faults + 1

(* function broadcast(wss, message): wss.clients.forEach, send to each     *)
(* client whose readyState is OPEN; a send that throws ends the forEach.   *)
broadcast(message, failAt) ==
    /\ failAt \in SendOutcomes
    /\ received' = [c \in Conns |->
                      IF c \in SendDone(failAt) THEN Append(received[c], message)
                      ELSE received[c]]
    /\ attempted' = [c \in Conns |->
                       IF c \in SendCalled(failAt) THEN attempted[c] + 1
                       ELSE attempted[c]]
    /\ faults' = IF failAt = 0 THEN faults ELSE faults + 1

(* Fault injection: an emit that publishes the record twice. *)
EmitTwice(type, id, failAt) ==
    /\ emitted' = emitted \o <<[type |-> type, id |-> id], [type |-> type, id |-> id]>>
    /\ broadcast(EventMessage(type, id), failAt)

(* this.emit(type, record): runs the listener registered in registerRoutes, *)
(* which broadcasts synchronously                                           *)
Emit(type, id, failAt) ==
    /\ emitted' = Append(emitted, [type |-> type, id |-> id])
    /\ broadcast(EventMessage(type, id), failAt)

IdleInit == [pc |-> "none", stats |-> NoStats, alerts |-> <<>>, logs |-> <<>>]

(* wss.on('connection'): the socket is open and in wss.clients; the handler *)
(* registers the listeners and calls sendInitialData, which runs up to its  *)
(* first store call.                                                        *)
Connect(c) ==
    /\ readyState[c] = "NONE"
    /\ \A d \in Conns : d < c => readyState[d] # "NONE"
    /\ readyState' = [readyState EXCEPT ![c] = "OPEN"]
    /\ clients' = Append(clients, c)
    /\ initData' = [initData EXCEPT ![c] = [IdleInit EXCEPT !.pc = "latest"]]
    /\ UNCHANGED <<now, storeVars, received, attempted, engineVars, consoleOut,
                   apiVars, es, faults>>

(* the closing handshake starts: the socket is no longer OPEN but still in *)
(* wss.clients                                                             *)
BeginClose(c) ==
    /\ readyState[c] = "OPEN"
    /\ readyState' = [readyState EXCEPT ![c] = "CLOSING"]
    /\ UNCHANGED <<now, storeVars, clients, received, attempted, initData,
                   engineVars, consoleOut, apiVars, es, faults>>

(* ws 'close': the socket is CLOSED and removed from wss.clients *)
Close(c) ==
    /\ readyState[c] \in {"OPEN", "CLOSING"}
    /\ readyState' = [readyState EXCEPT ![c] = "CLOSED"]
    /\ clients' = SelectSeq(clients, LAMBDA d : d # c)
    /\ UNCHANGED <<now, storeVars, received, attempted, initData, engineVars,
                   consoleOut, apiVars, es, faults>>

(* Fault injection: a message handler that terminates the connection on   *)
(* unparseable text.                                                       *)
OnMessageClosing(c, kind) ==
    /\ readyState[c] = "OPEN"
    /\ consoleOut' = CASE kind = "subscribe" -> "Client subscribed to"
                       [] kind = "unparseable" -> "Invalid WebSocket message"
                       [] OTHER -> consoleOut
    /\ readyState' = [readyState EXCEPT ![c] = IF kind = "unparseable" THEN "CLOSED" ELSE @]
    /\ clients' = IF kind = "unparseable" THEN SelectSeq(clients, LAMBDA d : d # c)
                  ELSE clients
    /\ UNCHANGED <<now, storeVars, received, attempted, initData, engineVars, apiVars,
                   es, faults>>

InboundKinds == {"subscribe", "other", "unparseable"}

(* ws.on('message'): JSON.parse in a try; a subscribe message is logged,   *)
(* an unparseable one is logged as invalid, anything else is ignored.      *)
OnMessage(c, kind) ==
    /\ readyState[c] = "OPEN"
    /\ consoleOut' = CASE kind = "subscribe" -> "Client subscribed to"
                       [] kind = "unparseable" -> "Invalid WebSocket message"
                       [] OTHER -> consoleOut
    /\ UNCHANGED <<now, storeVars, gatewayVars, engineVars, apiVars, es, faults>>


(* Whether a store call completes: ok = FALSE is a rejected promise *)
StoreFailed(ok) ==
    /\ ok \/ faults < MaxFaults
    /\ faults' = IF ok THEN faults ELSE faults + 1

(* -------------------------- sendInitialData --------------------------- *)
(* const stats = await storage.getDashboardStats(): first read, the latest *)
(* metric.  A rejected read is caught and ends the function.               *)
InitReadLatest(c, ok) ==
    /\ initData[c].pc = "latest"
    /\ \E latest \in getLatestTrafficMetrics(trafficMetrics) :
         initData' = [initData EXCEPT ![c] =
                        IF ok THEN [@ EXCEPT !.pc = "count",
                                             !.stats = DashboardStats(latest, 0)]
                        ELSE [IdleInit EXCEPT !.pc = "done"]]
    /\ StoreFailed(ok)
    /\ UNCHANGED <<now, storeVars, clients, readyState, received, attempted,
                   engineVars, consoleOut, apiVars, es>>

(* getDashboardStats, second read: the count of unresolved alerts *)
InitReadCount(c, ok) ==
    /\ initData[c].pc = "count"
    /\ initData' = [initData EXCEPT ![c] =
                      IF ok THEN [@ EXCEPT !.pc = "alerts",
                                           !.stats.activeAlerts = countActiveAlerts(alerts)]
                      ELSE [IdleInit EXCEPT !.pc = "done"]]
    /\ StoreFailed(ok)
    /\ UNCHANGED <<now, storeVars, clients, readyState, received, attempted,
                   engineVars, consoleOut, apiVars, es>>

(* const alerts = await storage.getActiveAlerts() *)
InitReadAlerts(c, ok) ==
    /\ initData[c].pc = "alerts"
    /\ \E list \in getActiveAlerts(alerts) :
         initData' = [initData EXCEPT ![c] =
                        IF ok THEN [@ EXCEPT !.pc = "logs", !.alerts = list]
                        ELSE [IdleInit EXCEPT !.pc = "done"]]
    /\ StoreFailed(ok)
    /\ UNCHANGED <<now, storeVars, clients, readyState, received, attempted,
                   engineVars, consoleOut, apiVars, es>>

(* const logs = await storage.getNetworkLogs(10) *)
InitReadLogs(c, ok) ==
    /\ initData[c].pc = "logs"
    /\ \E list \in getNetworkLogs(networkLogs, SnapshotLogLimit) :
         initData' = [initData EXCEPT ![c] =
                        IF ok THEN [@ EXCEPT !.pc = "send", !.logs = list]
                        ELSE [IdleInit EXCEPT !.pc = "done"]]
    /\ StoreFailed(ok)
    /\ UNCHANGED <<now, storeVars, clients, readyState, received, attempted,
                   engineVars, consoleOut, apiVars, es>>

(* Fault injection: sendInitialData without the readyState test. *)
InitSendUnguarded(c, throws) ==
    /\ initData[c].pc = "send"
    /\ throws => faults < MaxFaults
    /\ received' = [received EXCEPT ![c] =
                      IF ~throws
                      THEN Append(@, InitialDataMessage(initData[c].stats,
                                                        initData[c].alerts,
                                                        initData[c].logs))
                      ELSE @]
    /\ attempted' = [attempted EXCEPT ![c] = @ + 1]
    /\ faults' = IF throws THEN faults + 1 ELSE faults
    /\ initData' = [initData EXCEPT ![c] = [IdleInit EXCEPT !.pc = "done"]]
    /\ UNCHANGED <<now, storeVars, clients, readyState, engineVars, consoleOut,
                   apiVars, es>>

(* if (ws.readyState === WebSocket.OPEN) ws.send(initialData); a send that *)
(* throws is caught by the function's try.                                 *)
InitSend(c, throws) ==
    /\ initData[c].pc = "send"
    /\ throws => IsOpen(c) /\ faults < MaxFaults
    /\ received' = [received EXCEPT ![c] =
                      IF IsOpen(c) /\ ~throws
                      THEN Append(@, InitialDataMessage(initData[c].stats,
                                                        initData[c].alerts,
                                                        initData[c].logs))
                      ELSE @]
    /\ attempted' = [attempted EXCEPT ![c] = IF IsOpen(c) THEN @ + 1 ELSE @]
    /\ faults' = IF throws THEN faults + 1 ELSE faults
    /\ initData' = [initData EXCEPT ![c] = [IdleInit EXCEPT !.pc = "done"]]
    /\ UNCHANGED <<now, storeVars, clients, readyState, engineVars, consoleOut,
                   apiVars, es>>

(* ----------------------------- query API ------------------------------ *)
(* Request bodies.  valid: the fields the insert schema requires are there *)
(* with their types.                                                       *)
LogBodies ==
    [valid : BOOLEAN, sourceIp : {"10.0.0.5"}, action : {"DENY"},
     dataSize : {BandwidthThreshold + 1}, protocol : {"TCP"}, destinationHost : {""}]

AlertBodies ==
    [valid : BOOLEAN, severity : {"LOW"}, type : {"api"},
     isResolved : {"absent", "true", "false"}, resolvedAt : {"absent", "string"}]

(* insertNetworkLogSchema.parse *)
ParseLogOk(body) == body.valid

(* insertAlertSchema.parse: the schema omits only id and timestamp, so     *)
(* isResolved and resolvedAt are accepted; resolvedAt is a date, which no  *)
(* JSON string is.                                                         *)
ParseAlertOk(body) == body.valid /\ body.resolvedAt = "absent"

(* POST /api/network-logs *)
PostNetworkLog(body, ok) ==
    /\ Len(networkLogs) < MaxLogs
    /\ LET r == createNetworkLog(networkLogs, body, now)
       IN IF ParseLogOk(body) /\ ok /\ ~r.err
          THEN networkLogs' = r.rows /\ response' = 200
          ELSE networkLogs' = networkLogs /\ response' = 400
    /\ StoreFailed(ok \/ ~ParseLogOk(body))
    /\ UNCHANGED <<now, alerts, trafficMetrics, connections, gatewayVars, engineVars,
                   consoleOut, resolves, ingest, es>>

(* Fault injection: a POST /api/alerts that publishes the alert it stored. *)
PostAlertPublishing(body, ok) ==
    /\ Len(alerts) < MaxAlerts
    /\ LET r == createAlert(alerts,
                            [severity |-> body.severity, type |-> body.type,
                             sourceIp |-> "", ref |-> 0,
                             isResolved |-> body.isResolved, resolvedAt |-> NullDate],
                            now)
       IN IF ParseAlertOk(body) /\ ok /\ ~r.err
          THEN /\ alerts' = r.rows /\ response' = 200
               /\ received' = [c \in Conns |->
                                 IF IsOpen(c)
                                 THEN Append(received[c], EventMessage("alert", Len(r.rows)))
                                 ELSE received[c]]
          ELSE alerts' = alerts /\ response' = 400 /\ received' = received
    /\ StoreFailed(ok \/ ~ParseAlertOk(body))
    /\ UNCHANGED <<now, networkLogs, trafficMetrics, connections, clients, readyState,
                   attempted, initData, engineVars, consoleOut, resolves, ingest, es>>

(* POST /api/alerts *)
PostAlert(body, ok) ==
    /\ Len(alerts) < MaxAlerts
    /\ LET r == createAlert(alerts,
                            [severity |-> body.severity, type |-> body.type,
                             sourceIp |-> "", ref |-> 0,
                             isResolved |-> body.isResolved, resolvedAt |-> NullDate],
                            now)
       IN IF ParseAlertOk(body) /\ ok /\ ~r.err
          THEN alerts' = r.rows /\ response' = 200
          ELSE alerts' = alerts /\ response' = 400
    /\ StoreFailed(ok \/ ~ParseAlertOk(body))
    /\ UNCHANGED <<now, networkLogs, trafficMetrics, connections, gatewayVars, engineVars,
                   consoleOut, resolves, ingest, es>>

(* PATCH /api/alerts/:id/resolve: await storage.resolveAlert(id), then     *)
(* {success: true}; a rejection answers 500                                *)
PatchResolve(id, ok) ==
    /\ id \in DOMAIN alerts => resolves[id] < MaxResolves
    /\ LET r == resolveAlert(alerts, id, now)
       IN IF ok /\ ~r.err
          THEN /\ alerts' = r.rows
               /\ response' = 200
               /\ resolves' = [i \in DOMAIN resolves |->
                                 IF i = id /\ id \in DOMAIN alerts THEN resolves[i] + 1
                                 ELSE resolves[i]]
          ELSE /\ alerts' = alerts
               /\ response' = 500
               /\ resolves' = resolves
    /\ StoreFailed(ok)
    /\ UNCHANGED <<now, networkLogs, trafficMetrics, connections, gatewayVars, engineVars,
                   consoleOut, ingest, es>>

(* POST /api/system-data.  The handler takes the three arrays of the body  *)
(* in turn, logs, connections, alerts, and each item in turn: parse, then   *)
(* await the create call.  The first item that fails ends the request with  *)
(* 400; the items before it stay stored.                                    *)
ConnBodies == [valid : {TRUE}, isActive : {"absent"}]

OneOrNone(S) == {<<>>} \cup {<<b>> : b \in S}

(* the bodies posted: arrays of at most one item, each a body the schema    *)
(* accepts, the alert one already resolved                                  *)
Batches ==
    [logs : OneOrNone({b \in LogBodies : ParseLogOk(b)}),
     connections : OneOrNone(ConnBodies),
     alerts : OneOrNone({b \in AlertBodies : ParseAlertOk(b) /\ b.isResolved = "true"})]

NoIngest == [pc |-> "idle", logs |-> <<>>, connections |-> <<>>, alerts |-> <<>>]

(* insertConnectionSchema.parse *)
ParseConnOk(body) == body.valid

(* the request after an item: the rest of the body, or the answer 200 when  *)
(* nothing is left                                                          *)
IngestNext(rest) ==
    IF rest.logs = <<>> /\ rest.connections = <<>> /\ rest.alerts = <<>>
    THEN ingest' = NoIngest /\ response' = 200
    ELSE ingest' = rest /\ response' = response

IngestFailed == ingest' = NoIngest /\ response' = 400

(* the request arrives; an empty body is answered at once *)
PostSystemData(batch) ==
    /\ ingest.pc = "idle"
    /\ IngestNext([pc |-> "run", logs |-> batch.logs,
                   connections |-> batch.connections, alerts |-> batch.alerts])
    /\ UNCHANGED <<now, storeVars, gatewayVars, engineVars, consoleOut, resolves, es,
                   faults>>

(* the next item of logs: insertNetworkLogSchema.parse, createNetworkLog *)
SystemDataLog(ok) ==
    /\ ingest.pc = "run" /\ ingest.logs # <<>>
    /\ Len(networkLogs) < MaxLogs
    /\ LET body == Head(ingest.logs)
           r == createNetworkLog(networkLogs, body, now)
       IN /\ IF ParseLogOk(body) /\ ok /\ ~r.err
             THEN networkLogs' = r.rows /\ IngestNext([ingest EXCEPT !.logs = Tail(@)])
             ELSE networkLogs' = networkLogs /\ IngestFailed
          /\ StoreFailed(ok \/ ~ParseLogOk(body))
    /\ UNCHANGED <<now, alerts, trafficMetrics, connections, gatewayVars, engineVars,
                   consoleOut, resolves, es>>

(* the next item of connections: insertConnectionSchema.parse,             *)
(* createConnection                                                        *)
SystemDataConnection(ok) ==
    /\ ingest.pc = "run" /\ ingest.logs = <<>> /\ ingest.connections # <<>>
    /\ Len(connections) < MaxConnRows
    /\ LET body == Head(ingest.connections)
           r == createConnection(connections, body, now)
       IN /\ IF ParseConnOk(body) /\ ok /\ ~r.err
             THEN /\ connections' = r.rows
                  /\ IngestNext([ingest EXCEPT !.connections = Tail(@)])
             ELSE connections' = connections /\ IngestFailed
          /\ StoreFailed(ok \/ ~ParseConnOk(body))
    /\ UNCHANGED <<now, networkLogs, alerts, trafficMetrics, gatewayVars, engineVars,
                   consoleOut, resolves, es>>

(* the next item of alerts: insertAlertSchema.parse, createAlert *)
SystemDataAlert(ok) ==
    /\ ingest.pc = "run" /\ ingest.logs = <<>> /\ ingest.connections = <<>>
    /\ ingest.alerts # <<>>
    /\ Len(alerts) < MaxAlerts
    /\ LET body == Head(ingest.alerts)
           r == createAlert(alerts,
                            [severity |-> body.severity, type |-> body.type,
                             sourceIp |-> "", ref |-> 0,
                             isResolved |-> body.isResolved, resolvedAt |-> NullDate],
                            now)
       IN /\ IF ParseAlertOk(body) /\ ok /\ ~r.err
             THEN alerts' = r.rows /\ IngestNext([ingest EXCEPT !.alerts = Tail(@)])
             ELSE alerts' = alerts /\ IngestFailed
          /\ StoreFailed(ok \/ ~ParseAlertOk(body))
    /\ UNCHANGED <<now, networkLogs, trafficMetrics, connections, gatewayVars,
                   engineVars, consoleOut, resolves, es>>

(* Partial<Connection> objects handed to updateConnection *)
ConnectionUpdates ==
    [totalDataSize : {{}, {0}, {7}}, connectionCount : {{}, {2}},
     isActive : {{}, {TRUE}, {FALSE}}]

(* a call storage.updateConnection(id, updates) *)
UpdateConnection(id, updates, ok) ==
    /\ LET r == updateConnection(connections, id, updates)
       IN connections' = IF ok /\ ~r.err THEN r.rows ELSE connections
    /\ StoreFailed(ok)
    /\ UNCHANGED <<now, networkLogs, alerts, trafficMetrics, gatewayVars, engineVars,
                   consoleOut, apiVars, es>>

(* the clock advances *)
Tick ==
    /\ now < MaxClock
    /\ now' = now + 1
    /\ UNCHANGED <<storeVars, gatewayVars, engineVars, consoleOut, apiVars, es,
                   faults>>


(* --------------------------- NetworkMonitor --------------------------- *)
(* One tick of the clock is five seconds. *)
AnomalyWindow == 60     \* 5 * 60 * 1000 ms
MetricsWindow == 720    \* 60 * 60 * 1000 ms
LoopDraws == 5          \* Math.floor(Math.random() * 5 * trafficMultiplier) + 1

(* the InsertTrafficMetric of a cycle that has not built it yet *)
NoMetric ==
    [totalTraffic |-> "", activeConnections |-> 0, blockedRequests |-> 0,
     protocolDistribution |-> {}, topDestinations |-> {}]

IdleCycle == [task |-> "none", pc |-> "none", i |-> 0, mult |-> 1, saved |-> 0,
              pending |-> <<>>, t0 |-> 0, total |-> 0, blocked |-> 0, active |-> 0,
              protocols |-> {}, hosts |-> {}, metric |-> NoMetric]

(* Fault injection: the promise of a cycle rejects instead of resolving,  *)
(* and the rejection is never handled.                                     *)
DoneCycleRejected(task) == [IdleCycle EXCEPT !.task = task, !.pc = "rejected"]

(* a cycle that has returned, past its last catch, frees its slot *)
DoneCycle(task) == IdleCycle

(* the slot a starting cycle takes *)
FreeCycle(cy) ==
    /\ started < MaxCycles
    /\ cycles[cy].task = "none"
    /\ \A d \in Cycles : d < cy => cycles[d].task # "none"

(* stop(): isRunning = false.  monitoringInterval is never assigned, so   *)
(* no interval is cleared: the timers stay registered and keep firing, and *)
(* their callbacks return at once while isRunning is false.  A cycle in    *)
(* flight does not read isRunning.                                         *)
Stop ==
    /\ isRunning' = FALSE
    /\ UNCHANGED <<now, storeVars, gatewayVars, cycles, started, emitted, intervals,
                   consoleOut, apiVars, es, faults>>

(* start(): returns at once when running; otherwise isRunning = true and   *)
(* startTrafficCollection, startAnomalyDetection, startMetricsAggregation  *)
(* each call setInterval: one more timer for each task.                    *)
Start ==
    /\ ~isRunning
    /\ intervals < MaxIntervals
    /\ isRunning' = TRUE
    /\ intervals' = intervals + 1
    /\ UNCHANGED <<now, storeVars, gatewayVars, cycles, started, emitted, consoleOut,
                   apiVars, es, faults>>

(* the ALLOW log of one loop iteration of simulateNetworkTraffic *)
AllowLog ==
    [sourceIp |-> "192.168.0.1", action |-> "ALLOW", dataSize |-> 100,
     protocol |-> "HTTPS", destinationHost |-> "google.com"]

(* the suspicious log *)
SuspiciousLog ==
    [sourceIp |-> "192.168.0.2", action |-> "BLOCK", dataSize |-> 0,
     protocol |-> "HTTP", destinationHost |-> "crypto-miner.xyz"]

(* Fault injection: an alert that does not name the log. *)
SuspiciousAlertUnreferenced(logId) ==
    [severity |-> "HIGH", type |-> "SUSPICIOUS_TRAFFIC", sourceIp |-> "192.168.0.2",
     ref |-> 0, isResolved |-> "absent", resolvedAt |-> NullDate]

SuspiciousAlert(logId) ==
    [severity |-> "HIGH", type |-> "SUSPICIOUS_TRAFFIC", sourceIp |-> "192.168.0.2",
     ref |-> logId, isResolved |-> "absent", resolvedAt |-> NullDate]

(* i < Math.floor(Math.random() * 5 * trafficMultiplier) + 1, drawn anew at *)
(* every test of the loop condition                                         *)
LoopContinues(i, mult) == {i < r : r \in 1..(LoopDraws * mult)}

(* where simulateNetworkTraffic goes after iteration i of the loop: the     *)
(* next iteration, or past the loop to the suspicious branch                *)
(* (Math.random() > 0.9) or to the end                                      *)
AfterIteration(i, mult) ==
    (IF TRUE \in LoopContinues(i + 1, mult) THEN {"allowInsert"} ELSE {})
    \cup (IF FALSE \in LoopContinues(i + 1, mult) THEN {"suspInsert", "done"} ELSE {})

(* Fault injection: a callback that does not test isRunning. *)
TrafficTickUnguarded(cy, businessHours) ==
    /\ FreeCycle(cy)
    /\ cycles' = [cycles EXCEPT ![cy] =
                    [IdleCycle EXCEPT !.task = "traffic", !.pc = "allowInsert",
                                      !.mult = IF businessHours THEN 3 ELSE 1]]
    /\ started' = started + 1
    /\ UNCHANGED <<now, storeVars, gatewayVars, emitted, isRunning, intervals, consoleOut, apiVars, es,
                   faults>>

(* setInterval callback of startTrafficCollection: simulateNetworkTraffic  *)
(* runs up to its first createNetworkLog call                              *)
TrafficTick(cy, businessHours) ==
    /\ isRunning
    /\ FreeCycle(cy)
    /\ cycles' = [cycles EXCEPT ![cy] =
                    [IdleCycle EXCEPT !.task = "traffic", !.pc = "allowInsert",
                                      !.mult = IF businessHours THEN 3 ELSE 1]]
    /\ started' = started + 1
    /\ UNCHANGED <<now, storeVars, gatewayVars, emitted, isRunning, intervals, consoleOut, apiVars, es,
                   faults>>

(* Fault injection: a rejection of createNetworkLog(log) ends the cycle. *)
TrafficInsertAllowAborting(cy, ok, next) ==
    /\ cycles[cy].task = "traffic" /\ cycles[cy].pc = "allowInsert"
    /\ Len(networkLogs) < MaxLogs
    /\ LET r == createNetworkLog(networkLogs, AllowLog, now)
       IN IF ok /\ ~r.err
          THEN /\ networkLogs' = r.rows
               /\ cycles' = [cycles EXCEPT ![cy].pc = "allowEmit",
                                           ![cy].saved = Len(r.rows)]
          ELSE /\ networkLogs' = networkLogs
               /\ next = "done"
               /\ cycles' = [cycles EXCEPT ![cy] = DoneCycle("traffic")]
    /\ StoreFailed(ok)
    /\ UNCHANGED <<now, alerts, trafficMetrics, connections, gatewayVars, started, isRunning, intervals, emitted, consoleOut,
                   apiVars, es>>

(* the store runs createNetworkLog(log) of the loop; a rejection is caught *)
(* inside the iteration                                                    *)
TrafficInsertAllow(cy, ok, next) ==
    /\ cycles[cy].task = "traffic" /\ cycles[cy].pc = "allowInsert"
    /\ Len(networkLogs) < MaxLogs
    /\ LET r == createNetworkLog(networkLogs, AllowLog, now)
       IN IF ok /\ ~r.err
          THEN /\ networkLogs' = r.rows
               /\ cycles' = [cycles EXCEPT ![cy].pc = "allowEmit",
                                           ![cy].saved = Len(r.rows)]
          ELSE /\ networkLogs' = networkLogs
               /\ next \in AfterIteration(cycles[cy].i, cycles[cy].mult)
               /\ cycles' = [cycles EXCEPT ![cy] =
                               IF next = "done" THEN DoneCycle("traffic")
                               ELSE [@ EXCEPT !.pc = next, !.i = @ + 1]]
    /\ StoreFailed(ok)
    /\ UNCHANGED <<now, alerts, trafficMetrics, connections, gatewayVars, started, isRunning, intervals, emitted, consoleOut,
                   apiVars, es>>

(* this.emit('networkLog', savedLog) in the loop; an exception of the      *)
(* listener is caught by the iteration's try                               *)
TrafficEmitAllow(cy, failAt, next) ==
    /\ cycles[cy].task = "traffic" /\ cycles[cy].pc = "allowEmit"
    /\ Emit("networkLog", cycles[cy].saved, failAt)
    /\ next \in AfterIteration(cycles[cy].i, cycles[cy].mult)
    /\ cycles' = [cycles EXCEPT ![cy] =
                    IF next = "done" THEN DoneCycle("traffic")
                    ELSE [@ EXCEPT !.pc = next, !.i = @ + 1, !.saved = 0]]
    /\ UNCHANGED <<now, storeVars, clients, readyState, initData, started, isRunning, intervals,
                   consoleOut, apiVars, es>>

(* the store runs createNetworkLog(suspiciousLog) *)
TrafficInsertSuspicious(cy, ok) ==
    /\ cycles[cy].task = "traffic" /\ cycles[cy].pc = "suspInsert"
    /\ Len(networkLogs) < MaxLogs
    /\ LET r == createNetworkLog(networkLogs, SuspiciousLog, now)
       IN IF ok /\ ~r.err
          THEN /\ networkLogs' = r.rows
               /\ cycles' = [cycles EXCEPT ![cy].pc = "suspEmit",
                                           ![cy].saved = Len(r.rows)]
          ELSE /\ networkLogs' = networkLogs
               /\ cycles' = [cycles EXCEPT ![cy] = DoneCycle("traffic")]
    /\ StoreFailed(ok)
    /\ UNCHANGED <<now, alerts, trafficMetrics, connections, gatewayVars, started, isRunning, intervals, emitted, consoleOut,
                   apiVars, es>>

(* this.emit('networkLog', savedLog) of the suspicious branch, then the    *)
(* createAlert call; an exception of the listener leaves the try, so the   *)
(* alert is not created                                                    *)
TrafficEmitSuspicious(cy, failAt) ==
    /\ cycles[cy].task = "traffic" /\ cycles[cy].pc = "suspEmit"
    /\ Emit("networkLog", cycles[cy].saved, failAt)
    /\ cycles' = [cycles EXCEPT ![cy] =
                    IF failAt = 0 THEN [@ EXCEPT !.pc = "alertInsert"]
                    ELSE DoneCycle("traffic")]
    /\ UNCHANGED <<now, storeVars, clients, readyState, initData, started, isRunning, intervals,
                   consoleOut, apiVars, es>>

(* the store runs createAlert(alert) of the suspicious branch *)
TrafficInsertAlert(cy, ok) ==
    /\ cycles[cy].task = "traffic" /\ cycles[cy].pc = "alertInsert"
    /\ Len(alerts) < MaxAlerts
    /\ LET r == createAlert(alerts, SuspiciousAlert(cycles[cy].saved), now)
       IN IF ok /\ ~r.err
          THEN /\ alerts' = r.rows
               /\ cycles' = [cycles EXCEPT ![cy].pc = "alertEmit",
                                           ![cy].saved = Len(r.rows)]
          ELSE /\ alerts' = alerts
               /\ cycles' = [cycles EXCEPT ![cy] = DoneCycle("traffic")]
    /\ StoreFailed(ok)
    /\ UNCHANGED <<now, networkLogs, trafficMetrics, connections, gatewayVars, started, isRunning, intervals,
                   emitted, consoleOut, apiVars, es>>

(* this.emit('alert', savedAlert) of the suspicious branch *)
TrafficEmitAlert(cy, failAt) ==
    /\ cycles[cy].task = "traffic" /\ cycles[cy].pc = "alertEmit"
    /\ Emit("alert", cycles[cy].saved, failAt)
    /\ cycles' = [cycles EXCEPT ![cy] = DoneCycle("traffic")]
    /\ UNCHANGED <<now, storeVars, clients, readyState, initData, started, isRunning, intervals,
                   consoleOut, apiVars, es>>


(* the source addresses of the logs in order of first appearance: the key  *)
(* order of ipCounts, which Object.entries follows                         *)
RECURSIVE SourceOrder(_, _)
SourceOrder(logList, seen) ==
    IF logList = <<>> THEN <<>>
    ELSE IF Head(logList).sourceIp \in seen THEN SourceOrder(Tail(logList), seen)
    ELSE <<Head(logList).sourceIp>>
           \o SourceOrder(Tail(logList), seen \cup {Head(logList).sourceIp})

IpCount(logList, ip) == Cardinality({i \in DOMAIN logList : logList[i].sourceIp = ip})

RapidAlert(ip, count) ==
    [severity |-> "MEDIUM", type |-> "RAPID_CONNECTIONS", sourceIp |-> ip,
     ref |-> count, isResolved |-> "absent", resolvedAt |-> NullDate]

BandwidthAlert(totalData) ==
    [severity |-> "MEDIUM", type |-> "HIGH_BANDWIDTH", sourceIp |-> "",
     ref |-> totalData, isResolved |-> "absent", resolvedAt |-> NullDate]

(* recentLogs.reduce((sum, log) => sum + (log.dataSize || 0), 0) *)
TotalData(logList) == SumSeq([i \in DOMAIN logList |-> logList[i].dataSize])

(* Fault injection: the bandwidth rule with >= in place of >. *)
AnomalyAlertsAtThreshold(logList) ==
    LET ips == SourceOrder(logList, {})
        rapid == SelectSeq(ips, LAMBDA ip : IpCount(logList, ip) > RapidThreshold)
    IN [k \in DOMAIN rapid |-> RapidAlert(rapid[k], IpCount(logList, rapid[k]))]
       \o (IF TotalData(logList) >= BandwidthThreshold
           THEN <<BandwidthAlert(TotalData(logList))>> ELSE <<>>)

(* the alerts detectAnomalies creates from recentLogs, in the order it     *)
(* creates them: one per source with count > 20, then the bandwidth alert  *)
(* when the total is > 100 MiB                                             *)
AnomalyAlerts(logList) ==
    LET ips == SourceOrder(logList, {})
        rapid == SelectSeq(ips, LAMBDA ip : IpCount(logList, ip) > RapidThreshold)
    IN [k \in DOMAIN rapid |-> RapidAlert(rapid[k], IpCount(logList, rapid[k]))]
       \o (IF TotalData(logList) > BandwidthThreshold
           THEN <<BandwidthAlert(TotalData(logList))>> ELSE <<>>)

(* setInterval callback of startAnomalyDetection: detectAnomalies runs up  *)
(* to its getNetworkLogsByTimeRange call                                   *)
AnomalyTick(cy) ==
    /\ isRunning
    /\ FreeCycle(cy)
    /\ cycles' = [cycles EXCEPT ![cy] =
                    [IdleCycle EXCEPT !.task = "anomaly", !.pc = "read", !.t0 = now]]
    /\ started' = started + 1
    /\ UNCHANGED <<now, storeVars, gatewayVars, emitted, isRunning, intervals, consoleOut, apiVars, es,
                   faults>>

(* the store runs the window read; the rules are evaluated on its result   *)
(* and the first createAlert call, if any, is made                         *)
AnomalyRead(cy, ok) ==
    /\ cycles[cy].task = "anomaly" /\ cycles[cy].pc = "read"
    /\ \E recentLogs \in getNetworkLogsByTimeRange(networkLogs,
                            cycles[cy].t0 - AnomalyWindow, cycles[cy].t0) :
         cycles' = [cycles EXCEPT ![cy] =
                      IF ok /\ AnomalyAlerts(recentLogs) # <<>>
                      THEN [@ EXCEPT !.pc = "insert",
                                     !.pending = AnomalyAlerts(recentLogs)]
                      ELSE DoneCycle("anomaly")]
    /\ StoreFailed(ok)
    /\ UNCHANGED <<now, storeVars, gatewayVars, started, isRunning, intervals, emitted, consoleOut, apiVars, es>>

(* the store runs createAlert(alert); a rejection leaves the function's    *)
(* only try, so the remaining rules are skipped                            *)
AnomalyInsertAlert(cy, ok) ==
    /\ cycles[cy].task = "anomaly" /\ cycles[cy].pc = "insert"
    /\ Len(alerts) < MaxAlerts
    /\ LET r == createAlert(alerts, Head(cycles[cy].pending), now)
       IN IF ok /\ ~r.err
          THEN /\ alerts' = r.rows
               /\ cycles' = [cycles EXCEPT ![cy].pc = "emit",
                                           ![cy].saved = Len(r.rows),
                                           ![cy].pending = Tail(@)]
          ELSE /\ alerts' = alerts
               /\ cycles' = [cycles EXCEPT ![cy] = DoneCycle("anomaly")]
    /\ StoreFailed(ok)
    /\ UNCHANGED <<now, networkLogs, trafficMetrics, connections, gatewayVars,
                   started, isRunning, intervals, emitted, consoleOut, apiVars, es>>

(* this.emit('alert', savedAlert), then the next createAlert call if any;  *)
(* an exception of the listener leaves the try                             *)
AnomalyEmitAlert(cy, failAt) ==
    /\ cycles[cy].task = "anomaly" /\ cycles[cy].pc = "emit"
    /\ Emit("alert", cycles[cy].saved, failAt)
    /\ cycles' = [cycles EXCEPT ![cy] =
                    IF failAt = 0 /\ cycles[cy].pending # <<>>
                    THEN [@ EXCEPT !.pc = "insert", !.saved = 0]
                    ELSE DoneCycle("anomaly")]
    /\ UNCHANGED <<now, storeVars, clients, readyState, initData, started, isRunning, intervals,
                   consoleOut, apiVars, es>>

(* protocolCounts: the protocols of the logs, each with the number of logs  *)
(* that have it; a JSON object, here the set of its <<key, value>> pairs    *)
protocolCounts(logList) ==
    {<<k, Cardinality({i \in DOMAIN logList : logList[i].protocol = k})>> :
       k \in {logList[i].protocol : i \in DOMAIN logList}}

(* Fault injection: destinationCounts without the if (log.destinationHost) *)
destinationCountsUnfiltered(logList) ==
    {<<k, Cardinality({i \in DOMAIN logList : logList[i].destinationHost = k})>> :
       k \in {logList[i].destinationHost : i \in DOMAIN logList}}

(* destinationCounts: the same over destinationHost, for the logs whose     *)
(* destinationHost is truthy                                                *)
destinationCounts(logList) ==
    {<<k, Cardinality({i \in DOMAIN logList : logList[i].destinationHost = k})>> :
       k \in {logList[i].destinationHost : i \in DOMAIN logList} \ {""}}

(* setInterval callback of startMetricsAggregation: aggregateMetrics runs  *)
(* up to its getNetworkLogsByTimeRange call                                *)
MetricsTick(cy) ==
    /\ isRunning
    /\ FreeCycle(cy)
    /\ cycles' = [cycles EXCEPT ![cy] =
                    [IdleCycle EXCEPT !.task = "metrics", !.pc = "readLogs", !.t0 = now]]
    /\ started' = started + 1
    /\ UNCHANGED <<now, storeVars, gatewayVars, emitted, isRunning, intervals, consoleOut, apiVars, es,
                   faults>>

(* the store runs the read of the last hour's logs *)
MetricsReadLogs(cy, ok) ==
    /\ cycles[cy].task = "metrics" /\ cycles[cy].pc = "readLogs"
    /\ \E recentLogs \in getNetworkLogsByTimeRange(networkLogs,
                            cycles[cy].t0 - MetricsWindow, cycles[cy].t0) :
         cycles' = [cycles EXCEPT ![cy] =
                      IF ok
                      THEN [@ EXCEPT !.pc = "readConns",
                                     !.total = TotalData(recentLogs),
                                     !.protocols = protocolCounts(recentLogs),
                                     !.hosts = destinationCounts(recentLogs),
                                     !.blocked = Cardinality({i \in DOMAIN recentLogs :
                                                    recentLogs[i].action = "BLOCK"})]
                      ELSE DoneCycle("metrics")]
    /\ StoreFailed(ok)
    /\ UNCHANGED <<now, storeVars, gatewayVars, started, isRunning, intervals, emitted, consoleOut, apiVars, es>>

(* the store runs getActiveConnections; the metric is computed and         *)
(* createTrafficMetric is called                                           *)
MetricsReadConns(cy, ok) ==
    /\ cycles[cy].task = "metrics" /\ cycles[cy].pc = "readConns"
    /\ cycles' = [cycles EXCEPT ![cy] =
                    IF ok
                    THEN [@ EXCEPT !.pc = "insert",
                                   !.active = Len(getActiveConnections(connections)),
                                   !.metric =
                                     [totalTraffic |-> NumberToString(cycles[cy].total),
                                      activeConnections |->
                                        Len(getActiveConnections(connections)),
                                      blockedRequests |-> cycles[cy].blocked,
                                      protocolDistribution |-> cycles[cy].protocols,
                                      topDestinations |-> cycles[cy].hosts]]
                    ELSE DoneCycle("metrics")]
    /\ StoreFailed(ok)
    /\ UNCHANGED <<now, storeVars, gatewayVars, started, isRunning, intervals, emitted, consoleOut, apiVars, es>>

(* the store runs createTrafficMetric(metrics) *)
MetricsInsert(cy, ok) ==
    /\ cycles[cy].task = "metrics" /\ cycles[cy].pc = "insert"
    /\ Len(trafficMetrics) < MaxMetrics
    /\ LET r == createTrafficMetric(trafficMetrics, cycles[cy].metric, now)
       IN IF ok /\ ~r.err
          THEN /\ trafficMetrics' = r.rows
               /\ cycles' = [cycles EXCEPT ![cy] =
                               [IdleCycle EXCEPT !.task = "metrics", !.pc = "emit",
                                                 !.saved = Len(r.rows)]]
          ELSE /\ trafficMetrics' = trafficMetrics
               /\ cycles' = [cycles EXCEPT ![cy] = DoneCycle("metrics")]
    /\ StoreFailed(ok)
    /\ UNCHANGED <<now, networkLogs, alerts, connections, gatewayVars, started, isRunning, intervals,
                   emitted, consoleOut, apiVars, es>>

(* this.emit('metricsUpdate', savedMetrics) *)
MetricsEmit(cy, failAt) ==
    /\ cycles[cy].task = "metrics" /\ cycles[cy].pc = "emit"
    /\ Emit("metricsUpdate", cycles[cy].saved, failAt)
    /\ cycles' = [cycles EXCEPT ![cy] = DoneCycle("metrics")]
    /\ UNCHANGED <<now, storeVars, clients, readyState, initData, started, isRunning, intervals,
                   consoleOut, apiVars, es>>


(* ------------------------ ElasticsearchService ------------------------ *)
(* The fields of a hit's _source that processLogEntry reads. *)
EsSources ==
    {[action |-> "allow", outcome |-> "success", status |-> 200, level |-> "info",
      threat |-> FALSE],
     [action |-> "block", outcome |-> "", status |-> 0, level |-> "",
      threat |-> FALSE],
     [action |-> "", outcome |-> "", status |-> 500, level |-> "error",
      threat |-> TRUE]}

determineAction(source) ==
    IF source.action \in {"block", "deny", "drop"} \/ source.outcome = "failure"
    THEN "BLOCK"
    ELSE IF source.action \in {"allow", "accept"} \/ source.outcome = "success"
    THEN "ALLOW"
    ELSE IF source.status >= 400 THEN "BLOCK"
    ELSE "ALLOW"

isSuspiciousActivity(source) ==
    \/ source.status >= 400
    \/ source.outcome = "failure"
    \/ source.level \in {"error", "warning"}
    \/ source.action = "block"
    \/ source.threat

determineSeverity(source) ==
    IF source.threat THEN "critical"
    ELSE IF source.status >= 500 \/ source.level = "error" THEN "high"
    ELSE IF source.status >= 400 \/ source.level = "warning" THEN "medium"
    ELSE "low"

EsAlert(source) ==
    [severity |-> determineSeverity(source), type |-> "security",
     sourceIp |-> "unknown", ref |-> 0, isResolved |-> "false",
     resolvedAt |-> NullDate]

(* processLogEntry(hit): the store runs createNetworkLog; for a suspicious *)
(* hit createAlert is called next.  syncRecentLogs catches a rejection.    *)
EsProcessLogEntry(source, ok) ==
    /\ es = <<>>
    /\ Len(networkLogs) < MaxLogs
    /\ LET r == createNetworkLog(networkLogs,
                    [sourceIp |-> "0.0.0.0", action |-> determineAction(source),
                     dataSize |-> 100, protocol |-> "UNKNOWN",
                     destinationHost |-> "unknown"], now)
       IN IF ok /\ ~r.err
          THEN /\ networkLogs' = r.rows
               /\ es' = IF isSuspiciousActivity(source) THEN <<EsAlert(source)>>
                        ELSE <<>>
          ELSE /\ networkLogs' = networkLogs
               /\ es' = <<>>
    /\ StoreFailed(ok)
    /\ UNCHANGED <<now, alerts, trafficMetrics, connections, gatewayVars, engineVars,
                   consoleOut, apiVars>>

(* the store runs the createAlert call of processLogEntry *)
EsCreateAlert(ok) ==
    /\ es # <<>>
    /\ Len(alerts) < MaxAlerts
    /\ LET r == createAlert(alerts, es[1], now)
       IN alerts' = IF ok /\ ~r.err THEN r.rows ELSE alerts
    /\ es' = <<>>
    /\ StoreFailed(ok)
    /\ UNCHANGED <<now, networkLogs, trafficMetrics, connections, gatewayVars,
                   engineVars, consoleOut, apiVars>>

(* -------------------------- RealDataCollector ------------------------- *)
(* The fields of an item of data.logs that ingestExternalData reads; ""    *)
(* and 0 are the falsy values, which || replaces.                          *)
ExternalLogs == [sourceIp : {""}, action : {"", "FOO"}, dataSize : {-1, 0}]

(* the InsertNetworkLog that ingestExternalData builds from an item *)
ExternalLog(logData) ==
    [sourceIp |-> IF logData.sourceIp = "" THEN "0.0.0.0" ELSE logData.sourceIp,
     action |-> IF logData.action = "" THEN "ALLOW" ELSE logData.action,
     dataSize |-> IF logData.dataSize = 0 THEN 0 ELSE logData.dataSize,
     protocol |-> "UNKNOWN", destinationHost |-> ""]

(* ingestExternalData({logs: [logData]}): the store runs createNetworkLog; *)
(* a rejection is caught and logged                                        *)
IngestExternalData(logData, ok) ==
    /\ Len(networkLogs) < MaxLogs
    /\ LET r == createNetworkLog(networkLogs, ExternalLog(logData), now)
       IN networkLogs' = IF ok /\ ~r.err THEN r.rows ELSE networkLogs
    /\ StoreFailed(ok)
    /\ UNCHANGED <<now, alerts, trafficMetrics, connections, gatewayVars, engineVars,
                   consoleOut, apiVars, es>>


(* --------------------------- specification ---------------------------- *)
(* the tables are empty *)
EmptyStore ==
    /\ now = 0
    /\ networkLogs = <<>>
    /\ alerts = <<>>
    /\ trafficMetrics = <<>>
    /\ connections = <<>>

(* nothing has been emitted, answered or logged; no cycle is in flight *)
Quiet ==
    /\ clients = <<>>
    /\ cycles = [cy \in Cycles |-> IdleCycle]
    /\ emitted = <<>>
    /\ isRunning = TRUE
    /\ intervals = 1
    /\ consoleOut = ""
    /\ response = 0
    /\ resolves = [i \in 1..MaxAlerts |-> 0]
    /\ ingest = NoIngest
    /\ es = <<>>
    /\ faults = 0

(* no client has connected yet *)
NoConns ==
    /\ readyState = [c \in Conns |-> "NONE"]
    /\ initData = [c \in Conns |-> IdleInit]
    /\ received = [c \in Conns |-> <<>>]
    /\ attempted = [c \in Conns |-> 0]

(* every connection but the last has come, been sent the snapshot of the   *)
(* empty store, and gone                                                   *)
LastConn ==
    /\ readyState = [c \in Conns |-> IF c < MaxConns THEN "CLOSED" ELSE "NONE"]
    /\ initData = [c \in Conns |-> IF c < MaxConns THEN [IdleInit EXCEPT !.pc = "done"]
                                   ELSE IdleInit]
    /\ received = [c \in Conns |->
                     IF c < MaxConns
                     THEN <<InitialDataMessage(DashboardStats(<<>>, 0), <<>>, <<>>)>>
                     ELSE <<>>]
    /\ attempted = [c \in Conns |-> IF c < MaxConns THEN 1 ELSE 0]

(* the anomaly detector has run on the empty store, which leaves no trace, *)
(* as often as leaves one engine cycle to start                            *)
LastCycle == started = MaxCycles - 1

(* the server after registerRoutes and networkMonitor.start() *)
Init == EmptyStore /\ Quiet /\ NoConns /\ started = 0

GatewayNext ==
    \/ \E c \in Conns : Connect(c) \/ BeginClose(c) \/ Close(c)
    \/ \E c \in Conns, kind \in InboundKinds : OnMessage(c, kind)
    \/ \E c \in Conns, ok \in BOOLEAN :
         InitReadLatest(c, ok) \/ InitReadCount(c, ok) \/ InitReadAlerts(c, ok)
           \/ InitReadLogs(c, ok)
    \/ \E c \in Conns, throws \in BOOLEAN : InitSend(c, throws)

ApiNext ==
    \/ \E body \in LogBodies, ok \in BOOLEAN : PostNetworkLog(body, ok)
    \/ \E body \in AlertBodies, ok \in BOOLEAN : PostAlert(body, ok)
    \/ \E id \in 1..MaxAlerts, ok \in BOOLEAN : PatchResolve(id, ok)
    \/ \E batch \in Batches : PostSystemData(batch)
    \/ \E ok \in BOOLEAN : SystemDataLog(ok)
    \/ \E ok \in BOOLEAN : SystemDataConnection(ok)
    \/ \E ok \in BOOLEAN : SystemDataAlert(ok)

EsNext ==
    \/ \E source \in EsSources, ok \in BOOLEAN : EsProcessLogEntry(source, ok)
    \/ \E ok \in BOOLEAN : EsCreateAlert(ok)

PcNames == {"allowInsert", "suspInsert", "done"}

EngineNext ==
    \/ \E cy \in Cycles, businessHours \in BOOLEAN : TrafficTick(cy, businessHours)
    \/ \E cy \in Cycles, ok \in BOOLEAN, next \in PcNames :
         TrafficInsertAllow(cy, ok, next)
    \/ \E cy \in Cycles, failAt \in 0..MaxConns, next \in PcNames :
         TrafficEmitAllow(cy, failAt, next)
    \/ \E cy \in Cycles, ok \in BOOLEAN :
         TrafficInsertSuspicious(cy, ok) \/ TrafficInsertAlert(cy, ok)
    \/ \E cy \in Cycles, failAt \in 0..MaxConns :
         TrafficEmitSuspicious(cy, failAt) \/ TrafficEmitAlert(cy, failAt)
    \/ \E cy \in Cycles : AnomalyTick(cy) \/ MetricsTick(cy)
    \/ \E cy \in Cycles, ok \in BOOLEAN :
         AnomalyRead(cy, ok) \/ AnomalyInsertAlert(cy, ok) \/ MetricsReadLogs(cy, ok)
           \/ MetricsReadConns(cy, ok) \/ MetricsInsert(cy, ok)
    \/ \E cy \in Cycles, failAt \in 0..MaxConns :
         AnomalyEmitAlert(cy, failAt) \/ MetricsEmit(cy, failAt)

(* the three periodic tasks, each by itself *)
TrafficNext ==
    \/ \E cy \in Cycles, businessHours \in BOOLEAN : TrafficTick(cy, businessHours)
    \/ \E cy \in Cycles, ok \in BOOLEAN, next \in PcNames :
         TrafficInsertAllow(cy, ok, next)
    \/ \E cy \in Cycles, failAt \in 0..MaxConns, next \in PcNames :
         TrafficEmitAllow(cy, failAt, next)
    \/ \E cy \in Cycles, ok \in BOOLEAN : TrafficInsertSuspicious(cy, ok)
    \/ \E cy \in Cycles, ok \in BOOLEAN : TrafficInsertAlert(cy, ok)
    \/ \E cy \in Cycles, failAt \in 0..MaxConns : TrafficEmitSuspicious(cy, failAt)
    \/ \E cy \in Cycles, failAt \in 0..MaxConns : TrafficEmitAlert(cy, failAt)

AnomalyNext ==
    \/ \E cy \in Cycles : AnomalyTick(cy)
    \/ \E cy \in Cycles, ok \in BOOLEAN : AnomalyRead(cy, ok)
    \/ \E cy \in Cycles, ok \in BOOLEAN : AnomalyInsertAlert(cy, ok)
    \/ \E cy \in Cycles, failAt \in 0..MaxConns : AnomalyEmitAlert(cy, failAt)

MetricsNext ==
    \/ \E cy \in Cycles : MetricsTick(cy)
    \/ \E cy \in Cycles, ok \in BOOLEAN : MetricsReadLogs(cy, ok)
    \/ \E cy \in Cycles, ok \in BOOLEAN : MetricsReadConns(cy, ok)
    \/ \E cy \in Cycles, ok \in BOOLEAN : MetricsInsert(cy, ok)
    \/ \E cy \in Cycles, failAt \in 0..MaxConns : MetricsEmit(cy, failAt)

(* The whole server. *)
Next ==
    \/ Tick \/ GatewayNext \/ ApiNext \/ EsNext \/ EngineNext \/ Stop \/ Start
    \/ \E id \in 1..MaxConnRows, updates \in ConnectionUpdates, ok \in BOOLEAN :
         UpdateConnection(id, updates, ok)

Spec == Init /\ [][Next]_vars

(* The event bus: clients come and go while the engine's tasks interleave; *)
(* POST /api/network-logs supplies the traffic the bandwidth rule fires on. *)
BusNext ==
    \/ \E c \in Conns : Connect(c) \/ BeginClose(c) \/ Close(c)
    \/ EngineNext
    \/ \E body \in LogBodies, ok \in BOOLEAN : PostNetworkLog(body, ok)

(* one client, the engine's cycles overlapping *)
InitBus == EmptyStore /\ Quiet /\ LastConn /\ started = 0

SpecBus == InitBus /\ [][BusNext]_vars

(* several clients, one engine cycle *)
InitFanout == EmptyStore /\ Quiet /\ NoConns /\ LastCycle

SpecFanout == InitFanout /\ [][BusNext]_vars

(* One client's session, sendInitialData and inbound messages included,    *)
(* during one engine cycle.                                                *)
SessionNext ==
    \/ GatewayNext
    \/ EngineNext
    \/ \E body \in LogBodies, ok \in BOOLEAN : PostNetworkLog(body, ok)

InitSession == EmptyStore /\ Quiet /\ LastConn /\ LastCycle

SpecSession == InitSession /\ [][SessionNext]_vars

(* The logs and alerts under all their writers: the query API, the         *)
(* ingestion endpoint, the Elasticsearch bridge and one cycle of traffic    *)
(* synthesis or anomaly detection, within one reading of the clock.         *)
StoreNext == ApiNext \/ EsNext \/ TrafficNext \/ AnomalyNext

InitStore == EmptyStore /\ Quiet /\ NoConns /\ LastCycle

SpecStore == InitStore /\ [][StoreNext]_vars

(* The record store under the requests that reach it from outside, while   *)
(* the clock advances.                                                     *)
ClockNext == Tick \/ ApiNext \/ EsNext

SpecClock == InitStore /\ [][ClockNext]_vars

(* The snapshot of a store that already holds records: MaxPreLogs logs, the *)
(* two newest with the same timestamp, and MaxAlerts unresolved alerts.     *)
PreLog(i) ==
    [id |-> i,
     timestamp |-> (IF i < MaxPreLogs THEN i ELSE MaxPreLogs - 1) - (MaxPreLogs - 1),
     sourceIp |-> AllowLog.sourceIp, action |-> AllowLog.action,
     dataSize |-> AllowLog.dataSize, protocol |-> AllowLog.protocol,
     destinationHost |-> AllowLog.destinationHost]

PreAlert(i) == [createAlert(<<>>, SuspiciousAlert(i), 0).rows[1] EXCEPT !.id = i]

InitSnapshot ==
    /\ now = 0
    /\ networkLogs = [i \in 1..MaxPreLogs |-> PreLog(i)]
    /\ alerts = [i \in 1..MaxAlerts |-> PreAlert(i)]
    /\ trafficMetrics = <<>>
    /\ connections = <<>>
    /\ Quiet /\ NoConns /\ started = 0

(* clients connect while alerts are being resolved *)
SnapshotNext ==
    \/ \E c \in Conns : Connect(c) \/ BeginClose(c) \/ Close(c)
    \/ \E c \in Conns, ok \in BOOLEAN :
         InitReadLatest(c, ok) \/ InitReadCount(c, ok) \/ InitReadAlerts(c, ok)
           \/ InitReadLogs(c, ok)
    \/ \E c \in Conns, throws \in BOOLEAN : InitSend(c, throws)
    \/ \E id \in 1..MaxAlerts, ok \in BOOLEAN : PatchResolve(id, ok)

SpecSnapshot == InitSnapshot /\ [][SnapshotNext]_vars

(* The writers of network_logs that take their record from outside, given *)
(* bodies of the right types whose action and dataSize are arbitrary.      *)
RawLogBodies ==
    [valid : BOOLEAN, sourceIp : {"10.0.0.5"}, action : {"DENY", "FOO"},
     dataSize : {-1, 0}, protocol : {"TCP"}, destinationHost : {""}]

RawBatches ==
    [logs : OneOrNone({b \in RawLogBodies : ParseLogOk(b)}), connections : {<<>>},
     alerts : {<<>>}]

ValidityNext ==
    \/ Tick
    \/ \E body \in RawLogBodies, ok \in BOOLEAN : PostNetworkLog(body, ok)
    \/ \E batch \in RawBatches : PostSystemData(batch)
    \/ \E ok \in BOOLEAN : SystemDataLog(ok)
    \/ \E logData \in ExternalLogs, ok \in BOOLEAN : IngestExternalData(logData, ok)
    \/ EsNext

SpecValidity == InitStore /\ [][ValidityNext]_vars

(* Anomaly detection over a store that already holds traffic: a logs of   *)
(* AllowLog's source, the oldest on the edge of the first window, then b    *)
(* logs of SuspiciousLog's source, one log a second apart; the newest log   *)
(* carries all the bytes.                                                   *)
AnomalyScenarios ==
    [a : {RapidThreshold, RapidThreshold + 1}, b : {0, RapidThreshold + 1},
     bytes : {0, BandwidthThreshold, BandwidthThreshold + 1}]

AnomalyLogs(sc) ==
    [i \in 1..(sc.a + sc.b) |->
       [id |-> i, timestamp |-> i - 1 - AnomalyWindow,
        sourceIp |-> IF i <= sc.a THEN AllowLog.sourceIp ELSE SuspiciousLog.sourceIp,
        action |-> "ALLOW",
        dataSize |-> IF i = sc.a + sc.b THEN sc.bytes ELSE 0,
        protocol |-> AllowLog.protocol, destinationHost |-> AllowLog.destinationHost]]

InitAnomaly ==
    /\ now = 0
    /\ \E sc \in AnomalyScenarios : networkLogs = AnomalyLogs(sc)
    /\ alerts = <<>>
    /\ trafficMetrics = <<>>
    /\ connections = <<>>
    /\ Quiet /\ LastConn /\ started = 0

AnomalySpecNext ==
    \/ Tick
    \/ \E c \in Conns : Connect(c)
    \/ AnomalyNext

SpecAnomaly == InitAnomaly /\ [][AnomalySpecNext]_vars

(* The metrics rollup over a store that is empty or holds traffic: a       *)
(* blocked DNS log without destination host that is an hour old, and a      *)
(* fresh log of the synthesis loop; logs and connection records, active or  *)
(* not, keep arriving.                                                      *)
EdgeLog ==
    [id |-> 1, timestamp |-> 0 - MetricsWindow, sourceIp |-> SuspiciousLog.sourceIp,
     action |-> "BLOCK", dataSize |-> 7, protocol |-> "DNS", destinationHost |-> ""]

RecentLog == createNetworkLog(<<EdgeLog>>, AllowLog, 0).rows[2]

MetricsStores == {<<>>, <<EdgeLog>>, <<EdgeLog, RecentLog>>}

ConnBatches ==
    [logs : {<<>>},
     connections : OneOrNone([valid : {TRUE}, isActive : {"absent", "false"}]),
     alerts : {<<>>}]

InitMetrics ==
    /\ now = 0
    /\ networkLogs \in MetricsStores
    /\ alerts = <<>>
    /\ trafficMetrics = <<>>
    /\ connections = <<>>
    /\ Quiet /\ NoConns /\ started = 0

MetricsSpecNext ==
    \/ Tick
    \/ MetricsNext
    \/ \E body \in LogBodies, ok \in BOOLEAN : PostNetworkLog(body, ok)
    \/ \E batch \in ConnBatches : PostSystemData(batch)
    \/ \E ok \in BOOLEAN : SystemDataConnection(ok)

SpecMetrics == InitMetrics /\ [][MetricsSpecNext]_vars

(* Every writer of the store, the engine with one cycle, over a store     *)
(* that already holds a log and an alert, within one reading of the clock.  *)
InitWriters ==
    /\ now = 0
    /\ networkLogs = createNetworkLog(<<>>, AllowLog, 0).rows
    /\ alerts = <<PreAlert(1)>>
    /\ trafficMetrics = <<>>
    /\ connections = <<>>
    /\ Quiet /\ NoConns /\ LastCycle

WritersNext ==
    \/ ApiNext
    \/ EsNext
    \/ EngineNext
    \/ \E logData \in ExternalLogs, ok \in BOOLEAN : IngestExternalData(logData, ok)

SpecWriters == InitWriters /\ [][WritersNext]_vars

(* The engine stopped and started again while its cycles are in flight. *)
StopNext == Stop \/ Start \/ BusNext

SpecStop == InitBus /\ [][StopNext]_vars

(* POST /api/system-data given bodies whose items may fail validation: up  *)
(* to two logs, a connection and an alert.                                 *)
UpToTwo(S) == OneOrNone(S) \cup {<<a, b>> : a \in S, b \in S}

MixedBatches ==
    [logs : UpToTwo(LogBodies),
     connections : OneOrNone([valid : BOOLEAN, isActive : {"absent"}]),
     alerts : OneOrNone({b \in AlertBodies : b.isResolved = "absent"})]

BatchNext ==
    \/ \E batch \in MixedBatches : PostSystemData(batch)
    \/ \E ok \in BOOLEAN : SystemDataLog(ok)
    \/ \E ok \in BOOLEAN : SystemDataConnection(ok)
    \/ \E ok \in BOOLEAN : SystemDataAlert(ok)

SpecBatch == InitStore /\ [][BatchNext]_vars

(* getDashboardStats, as sendInitialData calls it, while rollup cycles     *)
(* store metrics, logs arrive and an alert is resolved.                    *)
InitDashboard ==
    /\ now = 0
    /\ networkLogs = <<>>
    /\ alerts = <<PreAlert(1)>>
    /\ trafficMetrics = <<>>
    /\ connections = <<>>
    /\ Quiet /\ LastConn /\ started = 0

DashboardNext ==
    \/ Tick
    \/ \E c \in Conns : Connect(c)
    \/ \E c \in Conns, ok \in BOOLEAN : InitReadLatest(c, ok)
    \/ \E c \in Conns, ok \in BOOLEAN : InitReadCount(c, ok)
    \/ MetricsNext
    \/ \E id \in 1..MaxAlerts, ok \in BOOLEAN : PatchResolve(id, ok)
    \/ \E body \in LogBodies, ok \in BOOLEAN : PostNetworkLog(body, ok)

SpecDashboard == InitDashboard /\ [][DashboardNext]_vars

(* The connection records: created by POST /api/system-data, active or    *)
(* not, and updated by updateConnection.                                   *)
ConnectionsNext ==
    \/ Tick
    \/ \E batch \in ConnBatches : PostSystemData(batch)
    \/ \E ok \in BOOLEAN : SystemDataConnection(ok)
    \/ \E id \in 1..MaxConnRows, updates \in ConnectionUpdates, ok \in BOOLEAN :
         UpdateConnection(id, updates, ok)

SpecConnections == InitStore /\ [][ConnectionsNext]_vars

(* The traffic logs under the operations of the engine, the gateway, the  *)
(* ingestion sources and the query API, over a store that holds a log and *)
(* an alert, within one reading of the clock.                              *)
LogBatches ==
    [logs : OneOrNone({b \in LogBodies : ParseLogOk(b)}), connections : {<<>>},
     alerts : {<<>>}]

InitLogs ==
    /\ now = 0
    /\ networkLogs = createNetworkLog(<<>>, AllowLog, 0).rows
    /\ alerts = <<PreAlert(1)>>
    /\ trafficMetrics = <<>>
    /\ connections = <<>>
    /\ Quiet /\ LastConn /\ LastCycle

LogsNext ==
    \/ \E c \in Conns : Connect(c) \/ BeginClose(c) \/ Close(c)
    \/ \E c \in Conns, ok \in BOOLEAN :
         InitReadLatest(c, ok) \/ InitReadCount(c, ok) \/ InitReadAlerts(c, ok)
           \/ InitReadLogs(c, ok)
    \/ \E c \in Conns, throws \in BOOLEAN : InitSend(c, throws)
    \/ EngineNext
    \/ \E body \in LogBodies, ok \in BOOLEAN : PostNetworkLog(body, ok)
    \/ \E batch \in LogBatches : PostSystemData(batch)
    \/ \E ok \in BOOLEAN : SystemDataLog(ok)
    \/ EsNext
    \/ \E logData \in ExternalLogs, ok \in BOOLEAN : IngestExternalData(logData, ok)

SpecLogs == InitLogs /\ [][LogsNext]_vars

(* The suspicious branch of traffic synthesis, with clients whose sends    *)
(* may throw, next to POST /api/alerts given an alert of the same type.    *)
SuspiciousTypeBodies ==
    [valid : {TRUE}, severity : {"HIGH"}, type : {"SUSPICIOUS_TRAFFIC"},
     isResolved : {"absent"}, resolvedAt : {"absent"}]

PairNext ==
    \/ BusNext
    \/ \E body \in SuspiciousTypeBodies, ok \in BOOLEAN : PostAlert(body, ok)

SpecPair == InitFanout /\ [][PairNext]_vars

(* The writers outside the engine (the query API, the ingestion endpoint,  *)
(* the Elasticsearch bridge, the host data collector) next to one cycle of *)
(* traffic synthesis, with a client connected.                             *)
InitOutside ==
    /\ now = 0
    /\ networkLogs = createNetworkLog(<<>>, AllowLog, 0).rows
    /\ alerts = <<PreAlert(1)>>
    /\ trafficMetrics = <<>>
    /\ connections = <<>>
    /\ Quiet /\ LastConn /\ LastCycle

OutsideNext ==
    \/ \E c \in Conns : Connect(c)
    \/ ApiNext
    \/ EsNext
    \/ TrafficNext
    \/ \E logData \in ExternalLogs, ok \in BOOLEAN : IngestExternalData(logData, ok)

SpecOutside == InitOutside /\ [][OutsideNext]_vars

(* ------------------------------ properties --------------------------- *)
(* the engine events among the messages handed to a connection *)
EventsOf(msgs) ==
    LET ev == SelectSeq(msgs, LAMBDA m : m.type \in EventTypes)
    IN [i \in DOMAIN ev |-> [type |-> ev[i].type, id |-> ev[i].id]]

RECURSIVE IsSubseq(_, _)
IsSubseq(s, t) ==
    IF s = <<>> THEN TRUE
    ELSE IF t = <<>> THEN FALSE
    ELSE IF Head(s) = Head(t) THEN IsSubseq(Tail(s), Tail(t))
    ELSE IsSubseq(s, Tail(t))

InitialDataCount(msgs) ==
    Cardinality({i \in DOMAIN msgs : msgs[i].type = "initialData"})

Last(s) == s[Len(s)]

NewestFirst(logList) ==
    \A i, j \in DOMAIN logList : i < j => logList[i].timestamp >= logList[j].timestamp

(* a step in which the engine emits an event, and the message broadcast *)
Emits == emitted' # emitted

Published == EventMessage(Last(emitted').type, Last(emitted').id)

(* in this step send was called on c and threw *)
SendThrew(c) ==
    IsOpen(c) /\ attempted'[c] = attempted[c] + 1 /\ received'[c] = received[c]

(* a step in which c is handed its initialData *)
SnapshotSent(c) == InitialDataCount(received'[c]) > InitialDataCount(received[c])

(* C1: broadcast fan-out.  In every step that emits an event, send is      *)
(* called once on each connection that is Open, and the connection is      *)
(* handed the event unless that very send throws; a connection that is not *)
(* Open is handed nothing.                                                 *)
C1_BroadcastFanOut ==
    [][Emits =>
         \A c \in Conns :
           IF IsOpen(c)
           THEN /\ attempted'[c] = attempted[c] + 1
                /\ received'[c] = Append(received[c], Published) \/ SendThrew(c)
           ELSE received'[c] = received[c] /\ attempted'[c] = attempted[c]]_vars

(* C2: per-connection publish order.  The engine events handed to a         *)
(* connection are, in the order handed, a subsequence of the events in the  *)
(* order emitted: of two events a connection receives, the one emitted      *)
(* first comes first, and none comes twice.                                 *)
C2_PublishOrder == \A c \in Conns : IsSubseq(EventsOf(received[c]), emitted)

(* a connection has events of overlapping cycles of two tasks, a metrics    *)
(* update between two events of the traffic task, and has missed an event   *)
C2_Witness ==
    \E c \in Conns :
      LET ev == EventsOf(received[c])
      IN /\ Len(emitted) > Len(ev)
         /\ \E i, j, k \in DOMAIN ev :
              /\ i < j /\ j < k
              /\ ev[i].type = "networkLog"
              /\ ev[j].type = "metricsUpdate"
              /\ ev[k].type \in {"networkLog", "alert"}

(* C3: send-failure isolation.  In every step in which a send of a         *)
(* broadcast throws, the connection whose send threw is dropped from        *)
(* wss.clients, every other Open connection is handed the event, and the    *)
(* engine cycle goes on as after a broadcast without failure: the           *)
(* suspicious branch goes on to create its alert.                           *)
C3_SendFailureIsolation ==
    [][(Emits /\ faults' # faults) =>
         /\ \A c \in Conns :
              IsOpen(c) => IF SendThrew(c) THEN c \notin Range(clients')
                           ELSE received'[c] = Append(received[c], Published)
         /\ \A cy \in Cycles :
              cycles[cy].pc = "suspEmit" => cycles'[cy].pc = "alertInsert"]_vars

(* C4 as stated: once sendInitialData has returned, the connection has     *)
(* been handed exactly one initialData message.                            *)
C4_ExactlyOneSnapshot ==
    \A c \in Conns : initData[c].pc = "done" => InitialDataCount(received[c]) = 1

(* C4: initial snapshot count.  A connection is handed at most one         *)
(* initialData message, only by the send of its sendInitialData, and when   *)
(* sendInitialData returns it has been handed one exactly if the three      *)
(* store reads completed, the connection is still Open at the send and the  *)
(* send does not throw; otherwise none.                                     *)
C4_AtMostOneSnapshot ==
    [][\A c \in Conns :
         /\ InitialDataCount(received'[c]) <= 1
         /\ SnapshotSent(c) => initData[c].pc = "send"
         /\ (initData[c].pc # "done" /\ initData'[c].pc = "done") =>
              InitialDataCount(received'[c]) =
                IF initData[c].pc = "send" /\ IsOpen(c) /\ faults' = faults THEN 1 ELSE 0]_vars

(* sendInitialData has returned on an Open connection that got its         *)
(* snapshot and an event                                                    *)
C4_Witness ==
    \E c \in Conns :
      /\ IsOpen(c) /\ initData[c].pc = "done"
      /\ InitialDataCount(received[c]) = 1
      /\ EventsOf(received[c]) # <<>>

(* C5 as stated: when an initialData message is sent, every alert of its   *)
(* list is unresolved in the store, and its logs are at most 10, newest    *)
(* first.                                                                  *)
C5_UnresolvedWhenSent ==
    [][\A c \in Conns :
         SnapshotSent(c) =>
           LET m == Last(received'[c])
           IN /\ \A k \in DOMAIN m.alerts : alerts'[m.alerts[k].id].isResolved = FALSE
              /\ Len(m.logs) <= SnapshotLogLimit
              /\ NewestFirst(m.logs)]_vars

(* C5: initial snapshot content.  The alerts list of an initialData        *)
(* message is the list getActiveAlerts returned, which holds exactly the    *)
(* alerts unresolved in the store at that read (an alert resolved between   *)
(* the read and the send stays in the list); the logs list is the one       *)
(* getNetworkLogs(10) returned: the 10 most recent logs of the store at     *)
(* that read, or all when fewer, ordered newest first.                      *)
C5_UnresolvedWhenRead ==
    [][\A c \in Conns :
         /\ (initData[c].pc = "alerts" /\ initData'[c].pc = "logs") =>
              /\ Range(initData'[c].alerts) = {r \in Range(alerts) : r.isResolved = FALSE}
              /\ Len(initData'[c].alerts) = Cardinality(Range(initData'[c].alerts))
         /\ (initData[c].pc = "logs" /\ initData'[c].pc = "send") =>
              LET got == initData'[c].logs
              IN /\ Len(got) = IF Len(networkLogs) < SnapshotLogLimit
                               THEN Len(networkLogs) ELSE SnapshotLogLimit
                 /\ Len(got) = Cardinality(Range(got))
                 /\ Range(got) \subseteq Range(networkLogs)
                 /\ \A r \in Range(networkLogs) \ Range(got), l \in Range(got) :
                      r.timestamp <= l.timestamp
         /\ SnapshotSent(c) =>
              LET m == Last(received'[c])
              IN /\ m.alerts = initData[c].alerts
                 /\ m.logs = initData[c].logs
                 /\ \A k \in DOMAIN m.alerts : m.alerts[k].isResolved = FALSE
                 /\ Len(m.logs) <= SnapshotLogLimit
                 /\ NewestFirst(m.logs)]_vars

(* a connection was handed a snapshot with 10 of the store's logs and an    *)
(* alert that is resolved in the store by now                               *)
C5_Witness ==
    \E c \in Conns : \E n \in DOMAIN received[c] :
      LET m == received[c][n]
      IN /\ m.type = "initialData"
         /\ Len(m.logs) = SnapshotLogLimit /\ Len(networkLogs) > SnapshotLogLimit
         /\ m.alerts # <<>>
         /\ alerts[m.alerts[1].id].isResolved

(* C6: no replay of missed events.  A connection that is not Open is       *)
(* handed nothing and no send is called on it, in any step (so none after   *)
(* it is Closed); an event is handed to a connection only in the step that  *)
(* emits it, anything else handed is its initialData; and a broadcast       *)
(* raises an error only from a send on an Open connection.                  *)
C6_NoReplay ==
    [][\A c \in Conns :
         /\ ~IsOpen(c) => received'[c] = received[c] /\ attempted'[c] = attempted[c]
         /\ received'[c] # received[c] =>
              /\ Len(received'[c]) = Len(received[c]) + 1
              /\ SubSeq(received'[c], 1, Len(received[c])) = received[c]
              /\ IF Emits THEN Last(received'[c]) = Published
                 ELSE Last(received'[c]).type = "initialData"
         /\ (Emits /\ faults' # faults) => \E d \in Conns : SendThrew(d)]_vars

(* a Closed connection got the first event emitted and, with no send        *)
(* having thrown, not a later one                                           *)
C6_Witness ==
    \E c \in Conns :
      /\ readyState[c] = "CLOSED" /\ faults = 0
      /\ EventsOf(received[c]) # <<>>
      /\ Head(EventsOf(received[c])) = Head(emitted)
      /\ Len(EventsOf(received[c])) < Len(emitted)

(* C7: subscribe is a no-op.  The message handler, whatever the inbound    *)
(* message, leaves wss.clients, every readyState, everything handed to or   *)
(* attempted on any connection, the pending snapshots and the engine as     *)
(* they are.                                                                *)
C7_SubscribeNoOp ==
    [][\A c \in Conns, kind \in InboundKinds :
         OnMessage(c, kind) =>
           UNCHANGED <<clients, readyState, received, attempted, initData, engineVars>>]_vars

(* an Open connection whose unparseable message was logged has an event *)
C7_Witness ==
    \E c \in Conns :
      /\ consoleOut = "Invalid WebSocket message"
      /\ IsOpen(c)
      /\ EventsOf(received[c]) # <<>>

(* C8: resolved-at stability.  An alert that is resolved with a resolvedAt *)
(* keeps that resolvedAt in every step.                                    *)
C8_ResolvedAtStable ==
    [][\A i \in DOMAIN alerts :
         (alerts[i].isResolved /\ alerts[i].resolvedAt # NullDate) =>
           alerts'[i].resolvedAt = alerts[i].resolvedAt]_vars

(* C9: resolution is monotone and repeatable.  No step takes an alert from *)
(* resolved to unresolved or removes it, and a PATCH resolve of an alert    *)
(* that is already resolved, its store call completing, answers 200 and     *)
(* leaves the alert resolved.                                               *)
C9_ResolutionMonotone ==
    [][/\ \A i \in DOMAIN alerts :
            alerts[i].isResolved => i \in DOMAIN alerts' /\ alerts'[i].isResolved
       /\ \A id \in DOMAIN alerts :
            (alerts[id].isResolved /\ PatchResolve(id, TRUE)) =>
              response' = 200 /\ alerts'[id].isResolved]_vars

(* an alert has been resolved twice and the last answer was 200 *)
C9_Witness ==
    \E id \in DOMAIN alerts :
      resolves[id] >= 2 /\ alerts[id].isResolved /\ response = 200

(* C10: alert invariant.  For every alert in the store, resolvedAt is set  *)
(* if and only if isResolved is true.                                      *)
C10_ResolvedAtIffResolved ==
    \A i \in DOMAIN alerts : (alerts[i].resolvedAt # NullDate) <=> alerts[i].isResolved

(* C11: log validity.  Every stored traffic log has an action among ALLOW, *)
(* BLOCK and DENY and a dataSize that is not negative.                      *)
C11_LogValidity ==
    \A i \in DOMAIN networkLogs :
      networkLogs[i].action \in {"ALLOW", "BLOCK", "DENY"} /\ networkLogs[i].dataSize >= 0

(* the logs of the 5-minute window that ends at t0 *)
WindowLogs(t0) ==
    {r \in Range(networkLogs) : r.timestamp >= t0 - 60 /\ r.timestamp <= t0}

(* the number of logs of the window that come from ip *)
WindowCount(t0, ip) == Cardinality({r \in WindowLogs(t0) : r.sourceIp = ip})

(* the sources with strictly more than 20 logs in the window *)
RapidSources(t0) ==
    {ip \in {r.sourceIp : r \in WindowLogs(t0)} : WindowCount(t0, ip) > 20}

(* the sum of dataSize over the logs of the window *)
RECURSIVE SumOver(_)
SumOver(S) ==
    IF S = {} THEN 0 ELSE LET r == CHOOSE x \in S : TRUE IN r.dataSize + SumOver(S \ {r})

OfType(alertList, type) == SelectSeq(alertList, LAMBDA x : x.type = type)

(* the alerts a cycle still has to create after a step; none once it ended *)
PendingAfter(cy) == cycles'[cy].pending

(* a store call of cycle cy fails in this step *)
AnomalyStoreFailure(cy) == AnomalyRead(cy, FALSE) \/ AnomalyInsertAlert(cy, FALSE)

(* cycle cy of anomaly detection returns in this step *)
AnomalyReturns(cy) == cycles[cy].task = "anomaly" /\ cycles'[cy].task = "none"

(* C12: rapid-connection detection.  A cycle whose window read succeeds    *)
(* sets out to create one RAPID_CONNECTIONS alert for each source with more *)
(* than 20 logs in the window and for no other, MEDIUM and naming the       *)
(* source and its count; each createAlert that succeeds stores the next of  *)
(* them; and a cycle that returns without a store failure has created them  *)
(* all.                                                                     *)
C12_RapidDetection ==
    [][\A cy \in Cycles :
         /\ AnomalyRead(cy, TRUE) =>
              LET rapid == OfType(PendingAfter(cy), "RAPID_CONNECTIONS")
                  t0 == cycles[cy].t0
              IN /\ {rapid[k].sourceIp : k \in DOMAIN rapid} = RapidSources(t0)
                 /\ Len(rapid) = Cardinality(RapidSources(t0))
                 /\ \A k \in DOMAIN rapid :
                      /\ rapid[k].severity = "MEDIUM"
                      /\ rapid[k].ref = WindowCount(t0, rapid[k].sourceIp)
         /\ AnomalyInsertAlert(cy, TRUE) =>
              /\ Len(alerts') = Len(alerts) + 1
              /\ Last(alerts').type = Head(cycles[cy].pending).type
              /\ Last(alerts').sourceIp = Head(cycles[cy].pending).sourceIp
              /\ Last(alerts').ref = Head(cycles[cy].pending).ref
              /\ Last(alerts').severity = Head(cycles[cy].pending).severity
         /\ (AnomalyReturns(cy) /\ ~AnomalyStoreFailure(cy)) =>
              OfType(cycles[cy].pending, "RAPID_CONNECTIONS") = <<>>]_vars

(* a publication of cycle cy throws in this step *)
AnomalySendFailure(cy) == \E failAt \in 1..MaxConns : AnomalyEmitAlert(cy, failAt)

(* the HIGH_BANDWIDTH alerts a cycle sets out to create when it reads the  *)
(* window: one when the sum of dataSize over the window is strictly        *)
(* greater than 104857600, none when it is equal or below; and a            *)
(* createAlert that succeeds stores the alert it was called with            *)
BandwidthRule(cy) ==
    /\ AnomalyRead(cy, TRUE) =>
         LET high == OfType(PendingAfter(cy), "HIGH_BANDWIDTH")
             total == SumOver(WindowLogs(cycles[cy].t0))
         IN /\ Len(high) = IF total > 104857600 THEN 1 ELSE 0
            /\ \A k \in DOMAIN high : high[k].ref = total
    /\ AnomalyInsertAlert(cy, TRUE) =>
         /\ Len(alerts') = Len(alerts) + 1
         /\ Last(alerts').type = Head(cycles[cy].pending).type
         /\ Len(OfType(alerts', "HIGH_BANDWIDTH"))
              = Len(OfType(alerts, "HIGH_BANDWIDTH"))
                + Len(OfType(<<Head(cycles[cy].pending)>>, "HIGH_BANDWIDTH"))

(* C13 as stated: every cycle over a window that sums to more than         *)
(* 104857600 creates exactly one HIGH_BANDWIDTH alert, every other cycle    *)
(* none.                                                                    *)
C13_BandwidthThreshold ==
    [][\A cy \in Cycles :
         /\ BandwidthRule(cy)
         /\ AnomalyRead(cy, FALSE) => SumOver(WindowLogs(cycles[cy].t0)) <= 104857600
         /\ AnomalyReturns(cy) => OfType(cycles[cy].pending, "HIGH_BANDWIDTH") = <<>>]_vars

(* C13: bandwidth detection threshold.  A cycle creates no HIGH_BANDWIDTH  *)
(* alert when the window sums to 104857600 or less, and at most one         *)
(* otherwise: exactly one when the window read, the createAlert calls and   *)
(* the publications of the cycle all succeed.                               *)
C13_BandwidthThresholdNoFailure ==
    [][\A cy \in Cycles :
         /\ BandwidthRule(cy)
         /\ (AnomalyReturns(cy) /\ ~AnomalyStoreFailure(cy) /\ ~AnomalySendFailure(cy)) =>
              OfType(cycles[cy].pending, "HIGH_BANDWIDTH") = <<>>]_vars

(* a cycle over a window of 104857601 bytes has stored its HIGH_BANDWIDTH  *)
(* alert and returned                                                      *)
C13_Witness ==
    /\ \E i \in DOMAIN alerts :
         alerts[i].type = "HIGH_BANDWIDTH" /\ alerts[i].ref = 104857601
    /\ \A cy \in Cycles : cycles[cy].task = "none"
    /\ started > 0

(* C14: rule independence.  When creating or publishing a RAPID_CONNECTIONS *)
(* alert fails, the cycle goes on with what the rules still ask for: the    *)
(* alerts of the remaining sources and the HIGH_BANDWIDTH alert.            *)
C14_RuleIndependence ==
    [][\A cy \in Cycles :
         /\ (/\ AnomalyInsertAlert(cy, FALSE)
             /\ Head(cycles[cy].pending).type = "RAPID_CONNECTIONS"
             /\ Tail(cycles[cy].pending) # <<>>) =>
              /\ cycles'[cy].task = "anomaly"
              /\ cycles'[cy].pending = Tail(cycles[cy].pending)
         /\ (/\ AnomalySendFailure(cy)
             /\ alerts[cycles[cy].saved].type = "RAPID_CONNECTIONS"
             /\ cycles[cy].pending # <<>>) =>
              /\ cycles'[cy].task = "anomaly"
              /\ cycles'[cy].pending = cycles[cy].pending]_vars

(* the logs of the hour that ends at t0 *)
HourLogs(t0) ==
    {r \in Range(networkLogs) : r.timestamp >= t0 - 720 /\ r.timestamp <= t0}

(* the number of logs in S for each value of a field that occurs in S *)
CountsBy(S, Field(_)) ==
    {<<k, Cardinality({r \in S : Field(r) = k})>> : k \in {Field(r) : r \in S}}

ProtocolOf(r) == r.protocol

HostOf(r) == r.destinationHost

MetricsStoreFailure(cy) ==
    MetricsReadLogs(cy, FALSE) \/ MetricsReadConns(cy, FALSE) \/ MetricsInsert(cy, FALSE)

(* rollup cycle cy returns in this step *)
MetricsReturns(cy) == cycles[cy].task = "metrics" /\ cycles'[cy].task = "none"

(* rollup cycle cy has appended its record *)
MetricAppended(cy) == cycles[cy].task = "metrics" /\ cycles[cy].pc = "emit"

(* traffic-metric records are created one at a time and by nothing but the *)
(* createTrafficMetric call of a rollup cycle, which makes that call once   *)
OnlyRollupAppends ==
    /\ trafficMetrics' # trafficMetrics =>
         /\ \E cy \in Cycles : MetricsInsert(cy, TRUE) /\ ~MetricAppended(cy)
         /\ Len(trafficMetrics') = Len(trafficMetrics) + 1
         /\ SubSeq(trafficMetrics', 1, Len(trafficMetrics)) = trafficMetrics
    /\ \A cy \in Cycles :
         (MetricAppended(cy) /\ cycles'[cy] # cycles[cy]) => MetricsReturns(cy)

(* C16 as stated: every rollup cycle appends exactly one traffic-metric    *)
(* record, and nothing else creates one.                                    *)
C16_OneMetricPerCycle ==
    [][/\ OnlyRollupAppends
       /\ \A cy \in Cycles : MetricsReturns(cy) => MetricAppended(cy)]_vars

(* C16: one metric snapshot per cycle.  Nothing but a rollup cycle creates *)
(* a traffic-metric record; a cycle appends at most one, and exactly one    *)
(* when none of its store calls fails.                                      *)
C16_OneMetricPerCompleteCycle ==
    [][/\ OnlyRollupAppends
       /\ \A cy \in Cycles :
            (MetricsReturns(cy) /\ ~MetricsStoreFailure(cy)) => MetricAppended(cy)]_vars

(* the rollup cycle has appended its record and returned, after other      *)
(* writers have written to the store                                       *)
C16_Witness ==
    /\ Len(trafficMetrics) = 1
    /\ \A cy \in Cycles : cycles[cy].task = "none"
    /\ Len(networkLogs) = MaxLogs
    /\ Last(emitted).type = "metricsUpdate"

(* the cycles of a task that are in flight *)
InFlight(task) == {cy \in Cycles : cycles[cy].task = task}

(* C17: no self-overlap.  At most one cycle of each periodic task is in    *)
(* flight at any time, however long a store call of a cycle takes.          *)
C17_NoSelfOverlap ==
    \A task \in {"traffic", "anomaly", "metrics"} : Cardinality(InFlight(task)) <= 1

(* a store call or a send of cycle cy fails in this step *)
CycleFailure(cy) ==
    /\ cycles[cy].task # "none"
    /\ cycles'[cy] # cycles[cy]
    /\ faults' = faults + 1

(* cycle cy has returned, or goes on behind the catch of a loop iteration *)
Contained(cy) ==
    \/ cycles[cy] = IdleCycle
    \/ cycles[cy].task = "traffic" /\ cycles[cy].pc \in {"allowInsert", "suspInsert"}

(* no cycle has ended with an unhandled rejection *)
NoneEscaped == \A cy \in Cycles : cycles[cy].pc # "rejected"

(* the interval callbacks of the three tasks can start a cycle *)
TicksStart ==
    /\ ENABLED (\E cy \in Cycles, businessHours \in BOOLEAN : TrafficTick(cy, businessHours))
    /\ ENABLED (\E cy \in Cycles : AnomalyTick(cy))
    /\ ENABLED (\E cy \in Cycles : MetricsTick(cy))

(* C18: failure containment in the engine.  Whatever store call or send    *)
(* fails, the failure is caught inside the cycle: the cycle returns or     *)
(* goes on with the next loop iteration, no rejection escapes, and as long *)
(* as the engine runs and has ticks left every task's tick starts a cycle.  *)
C18_FailureContainment ==
    /\ [](NoneEscaped /\ ((isRunning /\ started < MaxCycles) => TicksStart))
    /\ [][\A cy \in Cycles : CycleFailure(cy) => (Contained(cy))']_vars

(* a store call of a cycle has failed, nothing else has; the run's last    *)
(* cycle has stored a log since                                             *)
C18_Witness ==
    /\ faults = MaxFaults
    /\ response = 0
    /\ started = MaxCycles
    /\ cycles[1].task = "traffic" /\ cycles[1].pc = "allowEmit"
    /\ cycles[2] = IdleCycle
    /\ emitted = <<>>

(* the kind of event a cycle is about to emit, "none" when it is not at an *)
(* emit                                                                    *)
EmitKind(c) ==
    CASE c.pc \in {"allowEmit", "suspEmit"} -> "networkLog"
      [] c.pc = "alertEmit" -> "alert"
      [] c.pc = "emit" /\ c.task = "anomaly" -> "alert"
      [] c.pc = "emit" /\ c.task = "metrics" -> "metricsUpdate"
      [] OTHER -> "none"

(* the table an event kind reports on *)
TableOf(kind) ==
    CASE kind = "networkLog" -> networkLogs
      [] kind = "alert" -> alerts
      [] OTHER -> trafficMetrics

(* cycle cy takes a step *)
CycleStep(cy) == cycles[cy].task # "none" /\ cycles'[cy] # cycles[cy]

(* the step adds a record to the table of the kind *)
Stores(kind) == TableOf(kind)' # TableOf(kind)

(* every event names a stored record of its kind, and none is repeated *)
EventsNameRecords ==
    /\ \A i \in 1..Len(emitted) : emitted[i].id \in 1..Len(TableOf(emitted[i].type))
    /\ \A i, j \in 1..Len(emitted) : emitted[i] = emitted[j] => i = j

(* C19: persist then publish.  A cycle that has stored a record emits, as  *)
(* its next step, one event of the record's kind carrying the stored       *)
(* record; events come from nowhere else, and a cycle whose store write    *)
(* failed emits nothing for it.                                            *)
C19_PersistThenPublish ==
    /\ []EventsNameRecords
    /\ [][/\ \A cy \in Cycles, kind \in {"networkLog", "alert", "metricsUpdate"} :
              (CycleStep(cy) /\ Stores(kind)) =>
                 /\ EmitKind(cycles'[cy]) = kind
                 /\ cycles'[cy].saved = Len(TableOf(kind)')
                 /\ emitted' = emitted
          /\ \A cy \in Cycles :
              (CycleStep(cy) /\ EmitKind(cycles[cy]) # "none") =>
                 emitted' = Append(emitted, [type |-> EmitKind(cycles[cy]),
                                             id |-> cycles[cy].saved])
          /\ emitted' # emitted =>
               \E cy \in Cycles : CycleStep(cy) /\ EmitKind(cycles[cy]) # "none"
          /\ \A cy \in Cycles :
              (CycleFailure(cy) /\ EmitKind(cycles[cy]) = "none") =>
                 /\ emitted' = emitted
                 /\ EmitKind(cycles'[cy]) = "none"
                 /\ storeVars' = storeVars]_vars

(* the engine has stored and published a log, an alert and a metric, next  *)
(* to a log of the API that was not published                              *)
C19_Witness ==
    /\ \E i \in 1..Len(emitted) : emitted[i].type = "alert"
    /\ \E i \in 1..Len(emitted) : emitted[i].type = "metricsUpdate"
    /\ \E i \in 1..Len(emitted) : emitted[i].type = "networkLog"
    /\ Len(networkLogs) = 2
    /\ Cardinality({i \in 1..Len(emitted) : emitted[i].type = "networkLog"}) = 1
    /\ \A cy \in Cycles : cycles[cy] = IdleCycle

(* a cycle starts in this step *)
CycleStarts == \E cy \in Cycles : cycles[cy].task = "none" /\ cycles'[cy].task # "none"

(* the store has room for one more record of every kind *)
StoreHasRoom ==
    /\ Len(networkLogs) < MaxLogs
    /\ Len(alerts) < MaxAlerts
    /\ Len(trafficMetrics) < MaxMetrics

(* the next step of the code of cycle cy, its store call succeeding and    *)
(* its sends not throwing                                                  *)
CycleContinues(cy) ==
    \/ \E next \in PcNames :
         TrafficInsertAllow(cy, TRUE, next) \/ TrafficEmitAllow(cy, 0, next)
    \/ TrafficInsertSuspicious(cy, TRUE) \/ TrafficInsertAlert(cy, TRUE)
    \/ TrafficEmitSuspicious(cy, 0) \/ TrafficEmitAlert(cy, 0)
    \/ AnomalyRead(cy, TRUE) \/ AnomalyInsertAlert(cy, TRUE) \/ AnomalyEmitAlert(cy, 0)
    \/ MetricsReadLogs(cy, TRUE) \/ MetricsReadConns(cy, TRUE)
    \/ MetricsInsert(cy, TRUE) \/ MetricsEmit(cy, 0)

(* C20: stop semantics.  While the engine is stopped no step starts a      *)
(* cycle of any task, and every cycle in flight can take its next step,    *)
(* storing records and emitting events as it would have.                   *)
C20_StopSemantics ==
    /\ [][~isRunning => (~CycleStarts /\ started' = started)]_vars
    /\ [](\A cy \in Cycles :
            (~isRunning /\ cycles[cy].task # "none" /\ StoreHasRoom)
               => ENABLED CycleContinues(cy))
    /\ [][\A cy \in Cycles :
            (~isRunning /\ ~isRunning' /\ cycles[cy].task # "none")
               => (cycles'[cy].task \in {"none", cycles[cy].task})]_vars

(* the engine is stopped while a cycle that has stored its log is about to *)
(* emit it                                                                 *)
C20_Witness ==
    /\ ~isRunning
    /\ \E cy \in Cycles : cycles[cy].task = "traffic" /\ cycles[cy].pc = "allowEmit"
    /\ emitted = <<>>

(* the items of the request in progress, in the order they are taken *)
ItemsLeft(req) == Len(req.logs) + Len(req.connections) + Len(req.alerts)

(* the item the request is at fails validation or storage in this step:   *)
(* the handler has taken it and nothing was stored                         *)
ItemFails ==
    /\ ingest.pc = "run" /\ ingest' # ingest
    /\ storeVars' = storeVars

(* C21: best-effort batch ingestion.  When an item of the batch fails, the *)
(* response is an error, what was stored stays stored, and the items after *)
(* the failed one are still taken.                                         *)
C21_BestEffortBatch ==
    [][ItemFails =>
         /\ response' = 400
         /\ storeVars' = storeVars
         /\ (ItemsLeft(ingest) > 1 =>
               ingest'.pc = "run" /\ ItemsLeft(ingest') = ItemsLeft(ingest) - 1)]_vars

(* the three metric figures of a stats object or of a metric record *)
Figures(r) == <<r.totalTraffic, r.activeConnections, r.blockedRequests>>

(* the figures of the metric record stored last *)
LastStoredFigures ==
    IF trafficMetrics = <<>> THEN <<"0", 0, 0>>
    ELSE Figures(trafficMetrics[Len(trafficMetrics)])

(* the figures of the metric records with the greatest timestamp *)
NewestFigures ==
    IF trafficMetrics = <<>> THEN {<<"0", 0, 0>>}
    ELSE {Figures(r) : r \in {q \in Range(trafficMetrics) :
                                \A o \in Range(trafficMetrics) : o.timestamp <= q.timestamp}}

(* the number of alerts that are not resolved *)
UnresolvedCount == Cardinality({i \in DOMAIN alerts : ~alerts[i].isResolved})

(* a rollup cycle that fails leaves the figures as they are *)
FailedRollupKeepsFigures ==
    \A cy \in Cycles :
       MetricsStoreFailure(cy) =>
          NewestFigures' = NewestFigures /\ LastStoredFigures' = LastStoredFigures

(* C22 as stated: the object getDashboardStats returns carries the figures *)
(* of the metric stored last and the number of unresolved alerts, both as  *)
(* the store is when it returns.                                           *)
C22_DashboardAggregate ==
    [][/\ \A c \in Conns :
            InitReadCount(c, TRUE) =>
               /\ Figures(initData'[c].stats) = LastStoredFigures'
               /\ initData'[c].stats.activeAlerts = UnresolvedCount'
       /\ FailedRollupKeepsFigures]_vars

(* C22: dashboard aggregate.  getDashboardStats returns the figures of a   *)
(* metric with the greatest timestamp at its first read ("0", 0, 0 when    *)
(* there is none) and the number of unresolved alerts at its second read;  *)
(* a rollup cycle that fails leaves the figures unchanged.                 *)
C22_DashboardAggregateAtReads ==
    [][/\ \A c \in Conns :
            /\ InitReadLatest(c, TRUE) => Figures(initData'[c].stats) \in NewestFigures
            /\ InitReadCount(c, TRUE) =>
                 /\ Figures(initData'[c].stats) = Figures(initData[c].stats)
                 /\ initData'[c].stats.activeAlerts = UnresolvedCount
       /\ FailedRollupKeepsFigures]_vars

(* getDashboardStats has returned the figures of the first metric and a    *)
(* count of 0 while a second metric with other figures is in the store     *)
C22_Witness ==
    /\ Len(trafficMetrics) = 2
    /\ Figures(trafficMetrics[1]) # Figures(trafficMetrics[2])
    /\ trafficMetrics[1].timestamp < trafficMetrics[2].timestamp
    /\ initData[MaxConns].pc = "alerts"
    /\ Figures(initData[MaxConns].stats) = Figures(trafficMetrics[1])
    /\ initData[MaxConns].stats.activeAlerts = 0

(* the severities of the data model *)
Severities == {"LOW", "MEDIUM", "HIGH", "CRITICAL"}

(* C23: alert severity domain.  Every stored alert has a severity among    *)
(* LOW, MEDIUM, HIGH and CRITICAL, whichever producer created it.          *)
C23_SeverityDomain == \A i \in DOMAIN alerts : alerts[i].severity \in Severities

(* C24: inactive connections are frozen.  No step changes totalDataSize or *)
(* connectionCount of a connection record that is inactive, and none       *)
(* lowers totalDataSize of an active one.                                  *)
C24_InactiveFrozen ==
    [][\A i \in DOMAIN connections :
          /\ i \in DOMAIN connections'
          /\ ~connections[i].isActive =>
               /\ connections'[i].totalDataSize = connections[i].totalDataSize
               /\ connections'[i].connectionCount = connections[i].connectionCount
          /\ connections[i].isActive =>
               connections'[i].totalDataSize >= connections[i].totalDataSize]_vars

(* C25: logs are append-only.  Every step leaves each stored log as it is, *)
(* field by field and in its place; the store of logs only grows.          *)
C25_LogsAppendOnly ==
    [][/\ Len(networkLogs') >= Len(networkLogs)
       /\ \A i \in DOMAIN networkLogs : networkLogs'[i] = networkLogs[i]]_vars

(* the log the store began with is still there, as it was, after the       *)
(* engine, the API and a snapshot read have come by                        *)
C25_Witness ==
    /\ Len(networkLogs) = MaxLogs
    /\ networkLogs[1] = createNetworkLog(<<>>, AllowLog, 0).rows[1]
    /\ networkLogs[2].sourceIp = AllowLog.sourceIp
    /\ initData[MaxConns].pc = "done" /\ received[MaxConns] # <<>>
    /\ started = MaxCycles

(* createNetworkLog(log) of the loop of cycle cy rejects in this step *)
AllowInsertFails(cy) ==
    /\ cycles[cy].task = "traffic" /\ cycles[cy].pc = "allowInsert"
    /\ cycles'[cy] # cycles[cy]
    /\ networkLogs' = networkLogs

(* cycle cy goes from its failed iteration to the next one *)
NextIterationAfterFailure(cy) ==
    /\ TrafficInsertAllow(cy, FALSE, "allowInsert")
    /\ cycles'[cy].pc = "allowInsert" /\ cycles'[cy].i = cycles[cy].i + 1

(* cycle cy goes from its failed iteration past the loop to the suspicious *)
(* branch                                                                  *)
SuspiciousAfterFailure(cy) ==
    /\ TrafficInsertAllow(cy, FALSE, "suspInsert")
    /\ cycles'[cy].pc = "suspInsert"

(* C26: synthesis continues after a failed write.  A rejected              *)
(* createNetworkLog of an ALLOW log takes the cycle to the next test of    *)
(* the loop condition, as a stored log does: the next iteration follows    *)
(* whenever the loop can go on, the suspicious branch can follow, and      *)
(* nothing is emitted for the failed log.                                  *)
C26_SynthesisContinues ==
    /\ [][\A cy \in Cycles :
            AllowInsertFails(cy) =>
               /\ emitted' = emitted
               /\ \/ cycles'[cy] = IdleCycle
                  \/ /\ cycles'[cy].pc \in {"allowInsert", "suspInsert"}
                     /\ cycles'[cy].i = cycles[cy].i + 1]_vars
    /\ [](\A cy \in Cycles :
            (/\ cycles[cy].task = "traffic" /\ cycles[cy].pc = "allowInsert"
             /\ Len(networkLogs) < MaxLogs /\ faults < MaxFaults)
               => /\ ENABLED SuspiciousAfterFailure(cy)
                  /\ (cycles[cy].i + 1 < LoopDraws * cycles[cy].mult
                        => ENABLED NextIterationAfterFailure(cy)))

(* the first createNetworkLog of the cycle was rejected, and the cycle has *)
(* stored the log of its second iteration                                  *)
C26_Witness ==
    /\ faults = MaxFaults /\ response = 0 /\ emitted = <<>>
    /\ cycles[1].task = "traffic" /\ cycles[1].pc = "allowEmit" /\ cycles[1].i = 1
    /\ Len(networkLogs) = 1

(* the alerts of type SUSPICIOUS_TRAFFIC *)
SuspiciousAlerts == {a \in Range(alerts) : a.type = "SUSPICIOUS_TRAFFIC"}

(* alert a references a stored BLOCK log *)
ReferencesBlockLog(a) ==
    a.ref \in DOMAIN networkLogs /\ networkLogs[a.ref].action = "BLOCK"

(* cycle cy has stored its suspicious log and not yet its alert *)
AlertOwed(cy) ==
    cycles[cy].task = "traffic" /\ cycles[cy].pc \in {"suspEmit", "alertInsert"}

(* a traffic cycle stores an alert only after it has stored and published  *)
(* its BLOCK log: the alert is HIGH, of type SUSPICIOUS_TRAFFIC, references *)
(* that log, and its event is the next thing the cycle emits                *)
AlertFollowsBlockLog ==
    \A cy \in Cycles :
       /\ (CycleStep(cy) /\ cycles[cy].task = "traffic" /\ alerts' # alerts) =>
             LET a == alerts'[Len(alerts')]
             IN /\ Len(alerts') = Len(alerts) + 1
                /\ a.severity = "HIGH" /\ a.type = "SUSPICIOUS_TRAFFIC"
                /\ a.ref = cycles[cy].saved
                /\ a.ref \in DOMAIN networkLogs /\ networkLogs[a.ref].action = "BLOCK"
                /\ \E k \in DOMAIN emitted : emitted[k] = [type |-> "networkLog", id |-> a.ref]
                /\ \A k \in DOMAIN emitted : emitted[k] # [type |-> "alert", id |-> a.id]
                /\ cycles'[cy].pc = "alertEmit" /\ cycles'[cy].saved = a.id
       /\ (CycleStep(cy) /\ cycles[cy].task = "traffic" /\ cycles[cy].pc = "alertEmit") =>
             emitted' = Append(emitted, [type |-> "alert", id |-> cycles[cy].saved])

(* C27 as stated: a cycle that has stored a suspicious BLOCK log stores and *)
(* publishes its alert before it returns, and every SUSPICIOUS_TRAFFIC      *)
(* alert references a stored BLOCK log.                                     *)
C27_SuspiciousPair ==
    /\ [][AlertFollowsBlockLog
          /\ \A cy \in Cycles : AlertOwed(cy) => cycles'[cy].task # "none"]_vars
    /\ [](\A a \in SuspiciousAlerts : ReferencesBlockLog(a))

(* C27: suspicious pair.  A cycle that has stored a suspicious BLOCK log    *)
(* returns without its alert only when a send of the networkLog event threw *)
(* or createAlert rejected; an alert that traffic synthesis stores is HIGH, *)
(* of type SUSPICIOUS_TRAFFIC, references the BLOCK log stored and          *)
(* published before it, and is published next.                              *)
C27_SuspiciousPairUnlessFailure ==
    [][/\ AlertFollowsBlockLog
       /\ \A cy \in Cycles :
            (AlertOwed(cy) /\ cycles'[cy].task = "none") => faults' = faults + 1
       /\ \A cy \in Cycles :
            (AlertOwed(cy) /\ CycleStep(cy) /\ faults' = faults) =>
               cycles'[cy].pc \in {"alertInsert", "alertEmit"}]_vars

(* the cycle has stored the BLOCK log, published it, stored the alert that  *)
(* references it and published the alert                                    *)
C27_Witness ==
    /\ \E a \in SuspiciousAlerts :
         /\ a.severity = "HIGH" /\ ReferencesBlockLog(a)
         /\ \E j, k \in DOMAIN emitted :
              /\ j < k
              /\ emitted[j] = [type |-> "networkLog", id |-> a.ref]
              /\ emitted[k] = [type |-> "alert", id |-> a.id]
    /\ \A cy \in Cycles : cycles[cy] = IdleCycle

(* sendInitialData of c is between its call and its send *)
SnapshotPending(c) == initData[c].pc \in {"latest", "count", "alerts", "logs", "send"}

(* C28: snapshot/event race.  A broadcast does not wait for a connection's *)
(* snapshot: an Open connection whose sendInitialData has not sent yet is  *)
(* handed every event emitted meanwhile, and the initialData message that  *)
(* follows carries the lists as they were read, the records of those       *)
(* events included.                                                        *)
C28_SnapshotEventRace ==
    [][/\ (Emits /\ faults' = faults) =>
            \A c \in Conns :
               (IsOpen(c) /\ SnapshotPending(c)) =>
                  received'[c] = Append(received[c], Published)
       /\ \A c \in Conns :
            SnapshotSent(c) =>
               received'[c] = Append(received[c],
                                     InitialDataMessage(initData[c].stats,
                                                        initData[c].alerts,
                                                        initData[c].logs))]_vars

(* a connection has been handed the networkLog event of a log and then an  *)
(* initialData message whose logs list holds the same log                  *)
C28_Witness ==
    \E c \in Conns :
       /\ Len(received[c]) = 2
       /\ received[c][1].type = "networkLog"
       /\ received[c][2].type = "initialData"
       /\ \E i \in DOMAIN received[c][2].logs :
            received[c][2].logs[i].id = received[c][1].id

(* send is called on a connection, or a connection is handed a message *)
Sends == received' # received \/ attempted' # attempted

(* C29: only engine-created records are broadcast.  A step of the query    *)
(* API, the ingestion endpoint, the Elasticsearch bridge or the host data  *)
(* collector, resolveAlert included, calls send on no connection and emits *)
(* nothing; send is called only when a cycle of the engine emits.          *)
C29_OnlyEngineBroadcasts ==
    [][/\ (\A cy \in Cycles : ~CycleStep(cy)) => (~Sends /\ emitted' = emitted)
       /\ Sends => \E cy \in Cycles : CycleStep(cy) /\ EmitKind(cycles[cy]) # "none"]_vars

(* the client has been handed the event of the engine's log and nothing    *)
(* for the alert the API stored nor for the alert it resolved              *)
C29_Witness ==
    /\ received[MaxConns] = <<EventMessage("networkLog", 2)>>
    /\ Len(alerts) = 2 /\ alerts[2].type = "api"
    /\ alerts[1].isResolved = TRUE
    /\ \A cy \in Cycles : cycles[cy] = IdleCycle

(* C30: one timer per task.  Whatever start() and stop() calls have been   *)
(* made, while the engine is enabled each periodic task has one interval   *)
(* timer registered, so that it starts one cycle per elapsed interval.     *)
C30_OneTimerPerTask == isRunning => intervals = 1

=============================================================================
